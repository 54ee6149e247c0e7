------------------------- MODULE ModelStages_proof -------------------------
(***************************************************************************)
(* The stages of the model for every number of layers, every division of   *)
(* them, every batch of prompts and any number of requests decoded at      *)
(* once: together the stages compute what the whole model does, norm and   *)
(* positions aside, a cached entry depends on its own prompt only, every   *)
(* request works on a list of its own, and with a complete cache that is   *)
(* kept, each of its tokens is chosen on its whole conversation.           *)
(***************************************************************************)
EXTENDS ModelStages, InductionLemmas, FiniteSetTheorems, TLAPS

-----------------------------------------------------------------------------
(* The layout of prompts, masks and hidden states. *)

Hiddens == [saw: SUBSET Nat, depth: Nat]
States(n) == [1 .. n -> Hiddens]

LEMMA WidthBound ==
  ASSUME NEW lengths \in Seq(Nat \ {0}), NEW i \in DOMAIN lengths
  PROVE  /\ Width(lengths) \in Nat /\ lengths[i] \in Nat \ {0} /\ lengths[i] <= Width(lengths)
<1>1. lengths \in Seq(Nat)
  OBVIOUS
<1>2. lengths[i] \in Nat \ {0}
  OBVIOUS
<1>3. QED
  BY <1>1, <1>2, MaxOfSeq DEF Width

LEMMA EmbeddedType ==
  ASSUME NEW n \in Nat
  PROVE  Embedded(n) \in States(n) /\ \A p \in 1 .. n : Embedded(n)[p].saw = {p}
<1>1. \A p \in 1 .. n : Embedding(p) \in Hiddens /\ Embedding(p).saw = {p}
  BY DEF Embedding, Hiddens
<1>2. QED
  BY <1>1 DEF Embedded, States

LEMMA AttendType ==
  ASSUME NEW n \in Nat, NEW mask, NEW row \in States(n)
  PROVE  Attend(mask, row) \in States(n)
<1> DEFINE keys(p) == {q \in DOMAIN row : Visible(mask, 0, Len(row), p, q)}
           saw(p) == UNION {row[q].saw : q \in keys(p)}
<1>1. DOMAIN row = 1 .. n /\ \A q \in 1 .. n : row[q].saw \subseteq Nat /\ row[q].depth \in Nat
  BY DEF States, Hiddens
<1>2. \A p : saw(p) \in SUBSET Nat
  BY <1>1
<1>3. Attend(mask, row) = [p \in 1 .. n |-> [saw |-> saw(p), depth |-> row[p].depth + 1]]
  BY <1>1 DEF Attend
<1> HIDE DEF saw
<1>4. \A p \in 1 .. n : [saw |-> saw(p), depth |-> row[p].depth + 1] \in Hiddens
  BY <1>1, <1>2 DEF Hiddens
<1>5. QED
  BY <1>3, <1>4 DEF States

\* The hidden states go through the layers one by one.
LEMMA StatesUnfold ==
  ASSUME NEW mask, Len(mask) \in Nat
  PROVE  LET h == HiddenStates(mask)
         IN  /\ h \in [0 .. NumLayers -> States(Len(mask))]
             /\ h[0] = Embedded(Len(mask))
             /\ \A l \in 0 .. NumLayers - 1 : h[l + 1] = Attend(mask, h[l])
<1> DEFINE n == Len(mask)
           V == States(n)
           base == Embedded(n)
           F == [i \in Nat |-> [x \in V |-> Attend(mask, x)]]
           L == 0 .. NumLayers
           Body(h) == [l \in L |-> IF l = 0 THEN Embedded(Len(mask)) ELSE Attend(mask, h[l - 1])]
<1>1. base \in V /\ F \in [Nat -> [V -> V]]
  BY EmbeddedType, AttendType
<1>2. PICK g \in [Nat -> V] : g[0] = base /\ \A i \in Nat : g[i + 1] = F[i][g[i]]
  <2> HIDE DEF V, base, F
  <2>1. \E g : Unfolds(g, V, base, F)
    BY <1>1, Recursion
  <2>2. QED
    BY <2>1 DEF Unfolds
<1>3. \A i \in Nat : g[i] \in V /\ g[i + 1] = Attend(mask, g[i])
  BY <1>2
<1> HIDE DEF V, base, F
<1>4. NumLayers \in Nat \ {0}
  BY NumLayersAssumption
<1> DEFINE w == [l \in L |-> g[l]]
           h == HiddenStates(mask)
<1>5. w = Body(w)
  <2>1. ASSUME NEW l \in L
        PROVE  g[l] = IF l = 0 THEN Embedded(Len(mask)) ELSE Attend(mask, w[l - 1])
    <3>1. CASE l = 0
      BY <1>2, <3>1 DEF base
    <3>2. CASE l # 0
      <4>1. l - 1 \in Nat /\ l - 1 \in L /\ (l - 1) + 1 = l
        BY <1>4, <3>2
      <4>2. g[(l - 1) + 1] = Attend(mask, g[l - 1])
        BY <1>3, <4>1
      <4>3. QED
        BY <3>2, <4>1, <4>2
    <3>3. QED
      BY <3>1, <3>2
  <2>2. QED
    BY <2>1
<1>6. h = CHOOSE x : x = Body(x)
  BY DEF HiddenStates
<1>7. h = Body(h)
  <2> HIDE DEF Body, w, h
  <2>1. QED
    BY <1>5, <1>6
<1> HIDE DEF h, w
<1>8. \A l \in L : h[l] = g[l]
  <2> DEFINE Q == {i \in Nat : i \in L => h[i] = g[i]}
  <2>1. 0 \in Q
    BY <1>2, <1>4, <1>7 DEF base
  <2>2. ASSUME NEW i \in Nat, i \in Q PROVE i + 1 \in Q
    <3> SUFFICES ASSUME i + 1 \in L PROVE h[i + 1] = g[i + 1]
      OBVIOUS
    <3>1. i \in L /\ i + 1 # 0 /\ (i + 1) - 1 = i
      BY <1>4
    <3>2. h[i + 1] = Attend(mask, h[i])
      BY <1>7, <3>1
    <3>3. h[i] = g[i]
      BY <2>2, <3>1
    <3>4. QED
      BY <1>3, <3>2, <3>3
  <2> HIDE DEF Q
  <2>3. Nat \subseteq Q
    BY <2>1, <2>2, Induction
  <2>4. QED
    BY <1>4, <2>3 DEF Q
<1>9. DOMAIN h = L /\ h = [l \in L |-> h[l]]
  BY <1>7
<1>10. h \in [L -> V]
  BY <1>3, <1>4, <1>8, <1>9
<1>11. h[0] = Embedded(n)
  BY <1>2, <1>4, <1>8 DEF base
<1>12. \A l \in 0 .. NumLayers - 1 : h[l + 1] = Attend(mask, h[l])
  <2> TAKE l \in 0 .. NumLayers - 1
  <2>1. l \in L /\ l + 1 \in L /\ l \in Nat
    BY <1>4
  <2>2. QED
    BY <1>3, <1>8, <2>1
<1>13. QED
  BY <1>10, <1>11, <1>12 DEF h, V

\* A hidden state at position p has seen p; before the padding it has seen
\* nothing behind it, and none has seen the padding's right.
Sees(row, m, w) ==
  \A p \in 1 .. w : /\ row[p].saw \subseteq 1 .. w
                    /\ p <= m => p \in row[p].saw /\ row[p].saw \subseteq 1 .. p

LEMMA AttendSees ==
  ASSUME NEW m \in Nat, NEW w \in Nat, m <= w, NEW row \in States(w), Sees(row, m, w)
  PROVE  Sees(Attend(RowMask(m, w), row), m, w)
<1> DEFINE mask == RowMask(m, w)
           keys(p) == {q \in DOMAIN row : Visible(mask, 0, Len(row), p, q)}
           saw(p) == UNION {row[q].saw : q \in keys(p)}
<1>1. DOMAIN row = 1 .. w /\ Len(row) = w
  BY DEF States
<1>2. Len(mask) = w /\ \A q \in 1 .. w : mask[q] = (q <= m)
  BY DEF RowMask
<1>3. \A p, q \in 1 .. w : q \in keys(p) <=> q <= p /\ q <= m
  <2> TAKE p, q \in 1 .. w
  <2>1. Len(mask) = 0 + Len(row) /\ p + 0 = p
    BY <1>1, <1>2
  <2> HIDE DEF mask
  <2>2. Visible(mask, 0, Len(row), p, q) <=> q <= p /\ mask[q]
    BY <2>1 DEF Visible
  <2>3. QED
    BY <1>1, <1>2, <2>2
<1>4. keys(1) \subseteq 1 .. w /\ \A p : keys(p) \subseteq 1 .. w
  BY <1>1
<1>5. \A p \in 1 .. w : Attend(mask, row)[p].saw = saw(p)
  BY <1>1 DEF Attend
<1> HIDE DEF keys, mask
<1>6. ASSUME NEW p \in 1 .. w PROVE saw(p) \subseteq 1 .. w
  BY <1>4 DEF Sees
<1>7. ASSUME NEW p \in 1 .. w, p <= m PROVE p \in saw(p) /\ saw(p) \subseteq 1 .. p
  <2>1. p \in keys(p) /\ p \in row[p].saw
    BY <1>3, <1>7 DEF Sees
  <2>2. ASSUME NEW q \in keys(p) PROVE row[q].saw \subseteq 1 .. p
    <3>1. q \in 1 .. w /\ q <= p /\ q <= m
      BY <1>3, <1>4
    <3>2. row[q].saw \subseteq 1 .. q
      BY <3>1 DEF Sees
    <3>3. 1 .. q \subseteq 1 .. p
      BY <3>1
    <3>4. QED
      BY <3>2, <3>3
  <2>3. QED
    BY <2>1, <2>2
<1> HIDE DEF saw
<1>8. QED
  BY <1>5, <1>6, <1>7 DEF Sees, mask

\* The hidden states of a row of m tokens in a batch of width w.
LEMMA StatesFacts ==
  ASSUME NEW m \in Nat, NEW w \in Nat, m <= w
  PROVE  LET mask == RowMask(m, w)
         IN  \A l \in 0 .. NumLayers :
               HiddenStates(mask)[l] \in States(w) /\ Sees(HiddenStates(mask)[l], m, w)
<1> DEFINE mask == RowMask(m, w)
           h == HiddenStates(mask)
           Q == {l \in Nat : l <= NumLayers => h[l] \in States(w) /\ Sees(h[l], m, w)}
<1>1. Len(mask) = w
  BY DEF RowMask
<1> HIDE DEF mask
<1>2. /\ h[0] = Embedded(w) /\ h \in [0 .. NumLayers -> States(w)]
      /\ \A l \in 0 .. NumLayers - 1 : h[l + 1] = Attend(mask, h[l])
  BY <1>1, StatesUnfold
<1> HIDE DEF h
<1>3. NumLayers \in Nat \ {0}
  BY NumLayersAssumption
<1>4. 0 \in Q
  <2>1. h[0] \in States(w) /\ \A p \in 1 .. w : h[0][p].saw = {p}
    BY <1>2, EmbeddedType
  <2>2. QED
    BY <2>1 DEF Sees
<1>5. ASSUME NEW l \in Nat, l \in Q PROVE l + 1 \in Q
  <2> SUFFICES ASSUME l + 1 <= NumLayers
               PROVE  h[l + 1] \in States(w) /\ Sees(h[l + 1], m, w)
    OBVIOUS
  <2>1. l <= NumLayers /\ l \in 0 .. NumLayers - 1
    BY <1>3
  <2>2. h[l] \in States(w) /\ Sees(h[l], m, w)
    BY <1>5, <2>1
  <2>3. h[l + 1] = Attend(mask, h[l])
    BY <1>2, <2>1
  <2>4. QED
    BY <2>2, <2>3, AttendType, AttendSees DEF mask
<1> HIDE DEF Q
<1>6. Nat \subseteq Q
  BY <1>4, <1>5, Induction
<1>7. QED
  BY <1>3, <1>6 DEF Q, h, mask
-----------------------------------------------------------------------------
(* The division of the layers. *)

\* The ranges of build_layer_ranges lie side by side and cover the model.
LEMMA RangesFacts ==
  ASSUME NEW n \in 1 .. NumLayers
  PROVE  LET r == LayerRanges(n)
         IN  /\ DOMAIN r = 1 .. n
             /\ \A i \in 1 .. n : r[i][1] \in Nat /\ r[i][2] \in Nat /\ r[i][1] <= r[i][2]
                                 /\ r[i][2] <= NumLayers
             /\ r[1][1] = 0 /\ r[n][2] = NumLayers
             /\ \A i \in 1 .. n - 1 : r[i + 1][1] = r[i][2]
<1> DEFINE d == NumLayers \div n
           e == NumLayers % n
           count(i) == NumLayers \div n + (IF i <= NumLayers % n THEN 1 ELSE 0)
           Body(f) == [i \in 1 .. n |-> IF i = 1 THEN 0 ELSE f[i - 1] + count(i - 1)]
           w == [i \in 1 .. n |-> (i - 1) * d + (IF i - 1 <= e THEN i - 1 ELSE e)]
           start == CHOOSE f : f = Body(f)
<1>1. /\ NumLayers \in Nat \ {0} /\ n \in Nat \ {0}
  BY NumLayersAssumption
<1>2. d \in Nat /\ e \in Nat /\ e < n /\ NumLayers = n * d + e
  BY <1>1
<1>3. \A i : count(i) = d + (IF i <= e THEN 1 ELSE 0)
  OBVIOUS
<1> HIDE DEF d, e
<1>4. \A i \in Nat : i * d \in Nat /\ (i + 1) * d = i * d + d
  BY <1>2
<1>5. w = Body(w)
  <2>1. ASSUME NEW i \in 1 .. n
        PROVE  w[i] = IF i = 1 THEN 0 ELSE w[i - 1] + count(i - 1)
    <3>1. CASE i = 1
      BY <1>2, <3>1
    <3>2. CASE i # 1
      <4>1. PICK j \in Nat : i = j + 2
        <5>1. i - 2 \in Nat /\ i = (i - 2) + 2
          BY <1>1, <3>2
        <5>2. QED
          BY <5>1
      <4>2. j + 1 \in 1 .. n /\ i - 1 = j + 1 /\ (j + 1) - 1 = j
        BY <1>1, <4>1
      <4>3. w[j + 1] = j * d + (IF j <= e THEN j ELSE e)
        BY <4>2
      <4>4. w[i] = (j + 1) * d + (IF j + 1 <= e THEN j + 1 ELSE e)
        BY <4>2
      <4>5. count(j + 1) = d + (IF j + 1 <= e THEN 1 ELSE 0)
        BY <1>3
      <4>6. (j + 1) * d = j * d + d /\ j * d \in Nat
        BY <1>4
      <4> HIDE DEF w, count
      <4>7. w[i] = w[j + 1] + count(j + 1)
        BY <1>2, <4>3, <4>4, <4>5, <4>6
      <4>8. QED
        BY <3>2, <4>2, <4>7
    <3>3. QED
      BY <3>1, <3>2
  <2> HIDE DEF count
  <2>2. QED
    BY <2>1
<1>6. start = Body(start)
  <2> HIDE DEF Body, w
  <2>1. QED
    BY <1>5
<1>7. LayerRanges(n) = [i \in 1 .. n |-> <<start[i], start[i] + count(i)>>]
  BY DEF LayerRanges
<1> HIDE DEF start
<1>8. \A i \in 1 .. n : start[i] = w[i]
  <2> DEFINE Q == {i \in Nat : i + 1 <= n => start[i + 1] = w[i + 1]}
  <2>1. 0 \in Q
    <3>1. 1 \in 1 .. n /\ 0 + 1 = 1
      BY <1>1
    <3> HIDE DEF w, count
    <3>2. start[1] = 0 /\ w[1] = 0
      BY <1>5, <1>6, <3>1
    <3>3. QED
      BY <3>1, <3>2
  <2>2. ASSUME NEW i \in Nat, i \in Q PROVE i + 1 \in Q
    <3> SUFFICES ASSUME i + 2 <= n PROVE start[i + 2] = w[i + 2]
      OBVIOUS
    <3>1. i + 1 <= n /\ i + 2 \in 1 .. n /\ i + 2 # 1 /\ (i + 2) - 1 = i + 1
      BY <1>1
    <3>2. start[i + 1] = w[i + 1]
      BY <2>2, <3>1
    <3> HIDE DEF w, count
    <3>3. start[i + 2] = start[i + 1] + count(i + 1)
      BY <1>6, <3>1
    <3>4. w[i + 2] = w[i + 1] + count(i + 1)
      BY <1>5, <3>1
    <3>5. QED
      BY <3>2, <3>3, <3>4
  <2> HIDE DEF Q, w
  <2>3. Nat \subseteq Q
    BY <2>1, <2>2, Induction
  <2>4. ASSUME NEW i \in 1 .. n PROVE start[i] = w[i]
    <3>1. i - 1 \in Nat /\ (i - 1) + 1 = i /\ i <= n
      BY <1>1
    <3>2. i - 1 \in Q
      BY <2>3, <3>1
    <3>3. QED
      BY <3>1, <3>2 DEF Q
  <2>5. QED
    BY <2>4
<1>9. \A i \in 1 .. n : start[i] \in Nat /\ count(i) \in Nat
  <2> TAKE i \in 1 .. n
  <2>1. PICK j \in Nat : i = j + 1
    <3>1. i - 1 \in Nat /\ i = (i - 1) + 1
      BY <1>1
    <3>2. QED
      BY <3>1
  <2>2. start[i] = j * d + (IF j <= e THEN j ELSE e)
    BY <1>8, <2>1
  <2>3. j * d \in Nat
    BY <1>4
  <2>4. count(i) = d + (IF i <= e THEN 1 ELSE 0)
    BY <1>3
  <2> HIDE DEF count
  <2>5. QED
    BY <1>2, <2>2, <2>3, <2>4
<1>10. 1 \in 1 .. n /\ n \in 1 .. n
  BY <1>1
<1>11. start[1] = 0
  BY <1>6, <1>10
<1>12. start[n] + count(n) = NumLayers
  <2>1. PICK j \in Nat : n = j + 1
    <3>1. n - 1 \in Nat /\ n = (n - 1) + 1
      BY <1>1
    <3>2. QED
      BY <3>1
  <2>2. start[n] = j * d + (IF j <= e THEN j ELSE e)
    BY <1>8, <1>10, <2>1
  <2>3. j * d \in Nat /\ n * d = j * d + d
    BY <1>4, <2>1
  <2>4. count(n) = d + (IF n <= e THEN 1 ELSE 0)
    BY <1>3
  <2> HIDE DEF count
  <2>5. QED
    BY <1>2, <2>1, <2>2, <2>3, <2>4
<1>13. \A i \in 1 .. n - 1 : start[i + 1] = start[i] + count(i)
  <2> TAKE i \in 1 .. n - 1
  <2>1. i + 1 \in 1 .. n /\ i + 1 # 1 /\ (i + 1) - 1 = i
    BY <1>1
  <2> HIDE DEF count
  <2>2. QED
    BY <1>6, <2>1
<1> HIDE DEF count, Body
<1>14. \A i \in 1 .. n : LayerRanges(n)[i][1] = start[i] /\ LayerRanges(n)[i][2] = start[i] + count(i)
  BY <1>7
<1>15. \A i \in 1 .. n - 1 : LayerRanges(n)[i + 1][1] = LayerRanges(n)[i][2]
  <2> TAKE i \in 1 .. n - 1
  <2>1. i \in 1 .. n /\ i + 1 \in 1 .. n
    BY <1>1
  <2>2. QED
    BY <1>13, <1>14, <2>1
<1>16. \A i \in 1 .. n : start[i] <= start[i] + count(i) /\ start[i] + count(i) \in Nat
  BY <1>9
<1>17. \A i \in 1 .. n : start[i] + count(i) <= NumLayers
  <2> TAKE i \in 1 .. n
  <2>1. PICK j \in Nat : i = j + 1
    <3>1. i - 1 \in Nat /\ i = (i - 1) + 1
      BY <1>1
    <3>2. QED
      BY <3>1
  <2>2. start[i] = j * d + (IF j <= e THEN j ELSE e)
    BY <1>8, <2>1
  <2>3. j * d \in Nat /\ i * d = j * d + d
    BY <1>4, <2>1
  <2>4. count(i) = d + (IF i <= e THEN 1 ELSE 0)
    BY <1>3 DEF count
  <2>5. i * d <= n * d /\ i * d \in Nat /\ n * d \in Nat
    <3>1. \A a, b, c \in Nat : a <= b => a * c <= b * c /\ a * c \in Nat /\ b * c \in Nat
      <4> SUFFICES ASSUME NEW a \in Nat, NEW b \in Nat, NEW c \in Nat, a <= b
                   PROVE  a * c <= b * c /\ a * c \in Nat /\ b * c \in Nat
        OBVIOUS
      <4>1. b - a \in Nat /\ b * c = a * c + (b - a) * c
        OBVIOUS
      <4>2. a * c \in Nat /\ (b - a) * c \in Nat /\ b * c \in Nat
        BY <4>1
      <4>3. QED
        BY <4>1, <4>2
    <3>2. i \in Nat /\ n \in Nat /\ i <= n
      BY <1>1
    <3>3. QED
      BY <1>2, <3>1, <3>2
  <2>6. QED
    BY <1>2, <2>1, <2>2, <2>3, <2>4, <2>5
<1>18. QED
  BY <1>7, <1>9, <1>10, <1>11, <1>12, <1>14, <1>15, <1>16, <1>17
-----------------------------------------------------------------------------
(* The prefill. *)

LEMMA PenvFacts ==
  ASSUME penv \in PrefillEnvironments
  PROVE  /\ NumLayers \in Nat \ {0} /\ penv.stages \in 1 .. NumLayers
         /\ penv.lengths \in Seq(Nat \ {0}) /\ penv.lost \in SUBSET LayerIds
         /\ penv.checkpoint \in SUBSET Parameters
BY NumLayersAssumption, PrefillEnvironmentsAssumption DEF PrefillEnvironmentType

LEMMA StageRanges ==
  ASSUME penv \in PrefillEnvironments
  PROVE  /\ \A s \in 1 .. penv.stages :
              First(s) \in Nat /\ End(s) \in Nat /\ First(s) <= End(s) /\ End(s) <= NumLayers
         /\ First(1) = 0 /\ End(penv.stages) = NumLayers
         /\ \A s \in 1 .. penv.stages - 1 : First(s + 1) = End(s)
<1>1. penv.stages \in 1 .. NumLayers
  BY PenvFacts
<1>2. QED
  BY <1>1, RangesFacts DEF First, End, Ranges

LEMMA MaskFacts ==
  ASSUME penv \in PrefillEnvironments, NEW i \in Rows
  PROVE  /\ Width(penv.lengths) \in Nat /\ penv.lengths[i] \in Nat \ {0}
         /\ penv.lengths[i] <= Width(penv.lengths)
         /\ Len(Mask(i)) = Width(penv.lengths)
<1>1. penv.lengths \in Seq(Nat \ {0})
  BY PenvFacts
<1>2. /\ Width(penv.lengths) \in Nat /\ penv.lengths[i] \in Nat \ {0}
      /\ penv.lengths[i] <= Width(penv.lengths)
  BY <1>1, WidthBound DEF Rows
<1>3. Len(Mask(i)) = Width(penv.lengths)
  BY <1>2 DEF Mask, RowMask
<1>4. QED
  BY <1>2, <1>3

\* What the model as a whole computes for prompt i.
LEMMA WholeStates ==
  ASSUME penv \in PrefillEnvironments, NEW i \in Rows
  PROVE  /\ \A l \in 0 .. NumLayers :
              /\ HiddenStates(Mask(i))[l] \in States(Width(penv.lengths))
              /\ Sees(HiddenStates(Mask(i))[l], penv.lengths[i], Width(penv.lengths))
         /\ \A l \in 0 .. NumLayers - 1 :
              HiddenStates(Mask(i))[l + 1] = Attend(Mask(i), HiddenStates(Mask(i))[l])
<1>1. /\ Width(penv.lengths) \in Nat /\ penv.lengths[i] \in Nat \ {0}
      /\ penv.lengths[i] <= Width(penv.lengths)
      /\ Len(Mask(i)) = Width(penv.lengths)
  BY MaskFacts
<1>2. QED
  BY <1>1, StatesFacts, StatesUnfold DEF Mask

\* The cache of layer l of the whole model, without the positions if the layer
\* is not given them, and what may stand in its place.
RowOf(l, i) == IF Placed(l) THEN Reference(l, i) ELSE Unplaced(Reference(l, i))
WholeRow(l) == [i \in Rows |-> RowOf(l, i)]
Caches == {NoKV} \cup {WholeRow(l) : l \in LayerIds}

\* How far the hidden states have come.
Reached == IF stage > penv.stages THEN NumLayers ELSE First(stage) + layer

LoadInv ==
  /\ loaded \in [1 .. penv.stages -> {"no", "full", "partial", "raised"}]
  /\ RunsOnlyLoaded

\* The stages before this one have the caches of their layers, this one those
\* of the layers that have run.
PartsInv ==
  /\ parts \in [1 .. penv.stages -> Seq(Caches)]
  /\ \A s \in 1 .. penv.stages :
       /\ Len(parts[s]) = IF s < stage THEN End(s) - First(s) ELSE IF s = stage THEN layer ELSE 0
       /\ \A k \in 1 .. Len(parts[s]) : parts[s][k] \in {NoKV, WholeRow(First(s) + k - 1)}

StageInv ==
  /\ penv \in PrefillEnvironments
  /\ stage \in 1 .. penv.stages + 1
  /\ layer \in Nat
  /\ stage = 1 \/ stage > penv.stages => layer = 0
  /\ stage <= penv.stages => layer <= End(stage) - First(stage)
  /\ norms \in {0, 1}
  /\ hidden = IF stage = 1 THEN [i \in Rows |-> <<>>]
              ELSE [i \in Rows |-> HiddenStates(Mask(i))[Reached]]

PrefillInv == StageInv /\ LoadInv /\ PartsInv

\* The stages after the first have none of its layers.
LEMMA LaterStages ==
  ASSUME penv \in PrefillEnvironments, NEW s \in 1 .. penv.stages, s # 1
  PROVE  End(1) <= First(s)
<1> DEFINE Q == {n \in Nat : n + 2 <= penv.stages => End(1) <= First(n + 2)}
<1>1. penv.stages \in Nat
  BY PenvFacts
<1>2. /\ \A t \in 1 .. penv.stages : First(t) \in Nat /\ End(t) \in Nat /\ First(t) <= End(t)
      /\ \A t \in 1 .. penv.stages - 1 : First(t + 1) = End(t)
  BY StageRanges
<1>3. 0 \in Q
  <2> SUFFICES ASSUME 2 <= penv.stages PROVE End(1) <= First(2)
    OBVIOUS
  <2>1. 1 \in 1 .. penv.stages - 1 /\ 1 \in 1 .. penv.stages /\ 1 + 1 = 2
    BY <1>1
  <2>2. QED
    BY <1>2, <2>1
<1>4. ASSUME NEW n \in Nat, n \in Q PROVE n + 1 \in Q
  <2> SUFFICES ASSUME (n + 1) + 2 <= penv.stages PROVE End(1) <= First((n + 1) + 2)
    OBVIOUS
  <2> DEFINE t == n + 2
  <2>1. /\ t \in 1 .. penv.stages /\ t \in 1 .. penv.stages - 1 /\ 1 \in 1 .. penv.stages
        /\ t <= penv.stages /\ t + 1 = (n + 1) + 2
    BY <1>1
  <2>2. End(1) <= First(t)
    BY <1>4, <2>1
  <2> HIDE DEF t
  <2>3. First(t) <= End(t) /\ First(t + 1) = End(t) /\ First(t) \in Nat /\ End(t) \in Nat /\ End(1) \in Nat
    BY <1>2, <2>1
  <2>4. QED
    BY <2>1, <2>2, <2>3
<1> HIDE DEF Q
<1>5. s - 2 \in Nat /\ (s - 2) + 2 = s /\ s <= penv.stages
  BY <1>1
<1>6. s - 2 \in Q
  BY <1>3, <1>4, <1>5, Induction
<1>7. QED
  BY <1>5, <1>6 DEF Q

\* What a step of a stage leaves alone.
LEMMA SameModel ==
  ASSUME penv' = penv
  PROVE  /\ \A s : First(s)' = First(s) /\ End(s)' = End(s)
         /\ Rows' = Rows /\ Caches' = Caches /\ \A i : Mask(i)' = Mask(i)
         /\ \A l : WholeRow(l)' = WholeRow(l)
BY DEF First, End, Ranges, Caches, WholeRow, RowOf, Placed, Reference, Rows, Mask

LEMMA PrefillInitInv == PrefillInit => PrefillInv
<1> SUFFICES ASSUME PrefillInit PROVE PrefillInv
  OBVIOUS
<1>1. /\ penv \in PrefillEnvironments /\ stage = 1 /\ layer = 0
      /\ loaded = [s \in 1 .. penv.stages |-> "no"]
      /\ hidden = [i \in Rows |-> <<>>] /\ norms = 0
      /\ parts = [s \in 1 .. penv.stages |-> <<>>]
  BY DEF PrefillInit
<1>2. penv.stages \in Nat \ {0}
  BY <1>1, PenvFacts
<1>3. 1 <= penv.stages => 0 <= End(1) - First(1)
  BY <1>1, <1>2, StageRanges
<1>4. StageInv
  BY <1>1, <1>2, <1>3 DEF StageInv
<1>5. LoadInv
  BY <1>1 DEF LoadInv, RunsOnlyLoaded
<1>6. PartsInv
  BY <1>1, <1>2 DEF PartsInv
<1>7. QED
  BY <1>4, <1>5, <1>6 DEF PrefillInv

LEMMA LoadStep ==
  ASSUME PrefillInv, NEW s \in 1 .. penv.stages, Load(s)
  PROVE  PrefillInv'
<1>1. /\ penv' = penv /\ stage' = stage /\ layer' = layer /\ hidden' = hidden /\ parts' = parts
      /\ norms' = norms
      /\ loaded' = [loaded EXCEPT ![s] = IF PartiallyLoaded(s) = {} THEN "full"
                                         ELSE IF PartiallyLoaded(s) = Parameters THEN "partial"
                                         ELSE "raised"]
  BY DEF Load
<1>2. PartiallyLoaded(s) = Parameters /\ PartiallyLoaded(s) # {} => Parameters \subseteq penv.checkpoint
  BY DEF PartiallyLoaded
<1>3. LoadInv'
  BY <1>1, <1>2 DEF PrefillInv, LoadInv, RunsOnlyLoaded
<1>4. StageInv'
  BY <1>1 DEF PrefillInv, StageInv, Reached, First, End, Ranges, Rows, Mask
<1>5. PartsInv'
  BY <1>1, SameModel DEF PrefillInv, PartsInv
<1>6. QED
  BY <1>3, <1>4, <1>5 DEF PrefillInv

LEMMA ReachedNext ==
  ASSUME penv' = penv
  PROVE  Reached' = IF stage' > penv.stages THEN NumLayers
                    ELSE LayerRanges(penv.stages)[stage'][1] + layer'
BY DEF Reached, First, Ranges

LEMMA StageInvNext ==
  ASSUME penv \in PrefillEnvironments, penv' = penv,
         stage' \in 2 .. penv.stages + 1, layer' \in Nat,
         stage' > penv.stages => layer' = 0,
         stage' <= penv.stages => layer' <= LayerRanges(penv.stages)[stage'][2]
                                            - LayerRanges(penv.stages)[stage'][1],
         norms' \in {0, 1},
         hidden' = [i \in Rows |-> HiddenStates(Mask(i))[Reached']]
  PROVE  StageInv'
<1>1. penv.stages \in Nat
  BY PenvFacts
<1>2. stage' # 1 /\ stage' \in 1 .. penv.stages + 1
  BY <1>1
<1>3. hidden' = [i \in Rows |-> HiddenStates(Mask(i))[Reached]]'
  BY SameModel
<1>4. QED
  BY <1>2, <1>3 DEF StageInv, First, End, Ranges

LEMMA ExtractedType ==
  ASSUME NEW l, NEW kv
  PROVE  Extracted(l, kv) \in {NoKV, kv}
BY DEF Extracted

\* The first stage runs the whole model and keeps its own part.
LEMMA ForwardWholeStep ==
  ASSUME PrefillInv, NEW s \in 1 .. penv.stages, ForwardWhole(s)
  PROVE  PrefillInv'
<1>1. /\ penv \in PrefillEnvironments /\ s = stage /\ s = 1 /\ stage' = 2 /\ layer = 0 /\ layer' = 0
      /\ penv' = penv /\ loaded' = loaded /\ norms' \in {0, 1}
  BY DEF ForwardWhole, Ready, PrefillInv, StageInv
<1>2. /\ penv.stages \in Nat \ {0} /\ 1 \in 1 .. penv.stages
      /\ First(1) = 0 /\ End(1) \in Nat /\ End(1) <= NumLayers /\ NumLayers \in Nat
  BY <1>1, PenvFacts, StageRanges
<1> DEFINE part == [k \in 1 .. End(1) |->
                     Extracted(k - 1, [i \in Rows |-> KVOf(i, HiddenStates(Mask(i))[k - 1])])]
<1>3. parts' = [parts EXCEPT ![1] = part]
  <2>1. parts' = [parts EXCEPT ![s] = [k \in 1 .. End(s) - First(s) |->
                    Extracted(First(s) + k - 1, [i \in Rows |-> KVOf(i,
                      [j \in Rows |-> HiddenStates(Mask(j))][i][First(s) + k - 1])])]]
    BY DEF ForwardWhole
  <2>2. \A k \in 1 .. End(1) : 0 + k - 1 = k - 1
    BY <1>2
  <2>3. End(1) - 0 = End(1)
    BY <1>2
  <2>4. QED
    BY <1>1, <1>2, <2>1, <2>2, <2>3
<1>4. \A k \in 1 .. End(1) : part[k] \in {NoKV, WholeRow(k - 1)} /\ part[k] \in Caches
  <2> TAKE k \in 1 .. End(1)
  <2>1. k - 1 \in LayerIds
    BY <1>2 DEF LayerIds
  <2>2. Placed(k - 1)
    BY <1>2 DEF Placed
  <2>3. WholeRow(k - 1) = [i \in Rows |-> KVOf(i, HiddenStates(Mask(i))[k - 1])]
    BY <2>2 DEF WholeRow, RowOf, Reference
  <2>4. part[k] \in {NoKV, WholeRow(k - 1)}
    BY <2>3, ExtractedType
  <2>5. QED
    BY <2>1, <2>4 DEF Caches
<1>5. part \in Seq(Caches) /\ Len(part) = End(1)
  <2>1. part \in [1 .. End(1) -> Caches]
    BY <1>4
  <2> HIDE DEF part
  <2>2. QED
    BY <1>2, <2>1
<1> HIDE DEF part
<1>6. hidden' = [i \in Rows |-> HiddenStates(Mask(i))[End(1)]]
  BY <1>1 DEF ForwardWhole
<1>7. \A t \in 1 .. penv.stages : First(t)' = First(t) /\ End(t)' = End(t)
  BY <1>1, SameModel
<1>8. Rows' = Rows /\ Caches' = Caches /\ (\A i : Mask(i)' = Mask(i)) /\ \A l : WholeRow(l)' = WholeRow(l)
  BY <1>1, SameModel
<1>9. Reached' = End(1)
  <2>1. CASE penv.stages = 1
    BY <1>1, <2>1, StageRanges DEF Reached
  <2>2. CASE penv.stages # 1
    <3>1. 2 \in 1 .. penv.stages /\ First(2) = End(1)
      <4>1. 1 \in 1 .. penv.stages - 1 /\ 1 + 1 = 2
        BY <1>2, <2>2
      <4>2. QED
        BY <1>1, <1>2, <2>2, <4>1, StageRanges
    <3>2. Reached' = First(2) + 0
      <4>1. ~(2 > penv.stages)
        BY <1>2, <3>1
      <4>2. QED
        BY <1>1, <4>1, ReachedNext DEF First, Ranges
    <3>3. QED
      BY <1>2, <3>1, <3>2
  <2>3. QED
    BY <2>1, <2>2
<1>10. StageInv'
  <2>1. hidden' = [i \in Rows |-> HiddenStates(Mask(i))[Reached']]
    BY <1>6, <1>9
  <2>2. 2 <= penv.stages => 0 <= End(2) - First(2)
    <3>1. ASSUME 2 <= penv.stages PROVE 0 <= End(2) - First(2)
      <4>1. 2 \in 1 .. penv.stages
        BY <1>2, <3>1
      <4>2. QED
        BY <1>1, <4>1, StageRanges
    <3>2. QED
      BY <3>1
  <2>3. 2 \in 2 .. penv.stages + 1
    BY <1>2
  <2>4. QED
    BY <1>1, <2>1, <2>2, <2>3, StageInvNext DEF First, End, Ranges
<1>11. PartsInv'
  <2>1. /\ parts \in [1 .. penv.stages -> Seq(Caches)]
        /\ \A t \in 1 .. penv.stages : t # 1 => Len(parts[t]) = 0
    BY <1>1, <1>2 DEF PrefillInv, PartsInv
  <2>2. /\ parts' \in [1 .. penv.stages -> Seq(Caches)] /\ parts'[1] = part
        /\ \A t \in 1 .. penv.stages : t # 1 => parts'[t] = parts[t]
    BY <1>2, <1>3, <1>5, <2>1
  <2>3. ASSUME NEW t \in 1 .. penv.stages
        PROVE  /\ Len(parts'[t]) = IF t < 2 THEN End(t) - First(t) ELSE IF t = 2 THEN 0 ELSE 0
               /\ \A k \in 1 .. Len(parts'[t]) : parts'[t][k] \in {NoKV, WholeRow(First(t) + k - 1)}
    <3>1. CASE t = 1
      <4>1. parts'[t] = part /\ Len(part) = End(1) - First(1)
        BY <1>2, <1>5, <2>2, <3>1
      <4>2. \A k \in 1 .. End(1) : First(1) + k - 1 = k - 1
        BY <1>2
      <4>3. QED
        BY <1>4, <1>5, <3>1, <4>1, <4>2
    <3>2. CASE t # 1
      <4>1. Len(parts'[t]) = 0 /\ ~(t < 2)
        BY <1>2, <2>1, <2>2, <3>2
      <4>2. QED
        BY <4>1
    <3>3. QED
      BY <3>1, <3>2
  <2>4. QED
    BY <1>1, <1>7, <1>8, <2>2, <2>3 DEF PartsInv
<1>12. LoadInv'
  BY <1>1 DEF PrefillInv, LoadInv, RunsOnlyLoaded
<1>13. QED
  BY <1>10, <1>11, <1>12 DEF PrefillInv

\* A layer of a later stage computes what it does in the model.
LEMMA ForwardLayerStep ==
  ASSUME PrefillInv, NEW s \in 1 .. penv.stages, ForwardLayer(s)
  PROVE  PrefillInv'
<1>1. /\ penv \in PrefillEnvironments /\ s = stage /\ s > 1 /\ stage' = stage /\ layer' = layer + 1
      /\ layer \in Nat /\ layer < End(s) - First(s)
      /\ penv' = penv /\ loaded' = loaded /\ norms' \in {0, 1}
  BY DEF ForwardLayer, Ready, PrefillInv, StageInv
<1>2. /\ penv.stages \in Nat \ {0} /\ s \in Nat /\ NumLayers \in Nat
      /\ First(s) \in Nat /\ End(s) \in Nat /\ End(s) <= NumLayers
  BY <1>1, PenvFacts, StageRanges
<1> DEFINE l == First(s) + layer
           row == CachedOf(hidden)
           kv == IF penv.returnsKV THEN Extracted(l, row) ELSE NoKV
<1>3. l \in LayerIds /\ l \in 0 .. NumLayers - 1 /\ l \in 0 .. NumLayers /\ l + 1 = First(s) + (layer + 1)
  BY <1>1, <1>2 DEF LayerIds
<1>4. Reached = l
  BY <1>1, <1>2 DEF Reached
<1>5. hidden = [i \in Rows |-> HiddenStates(Mask(i))[l]]
  BY <1>1, <1>4 DEF PrefillInv, StageInv
<1>6. parts' = [parts EXCEPT ![s] = Append(parts[s], kv)]
  BY DEF ForwardLayer
<1>7. hidden' = [i \in Rows |-> Attend(Mask(i), hidden[i])]
  BY DEF ForwardLayer
<1>8. row = WholeRow(l)
  <2>1. End(1) <= First(s) /\ End(1) \in Nat
    <3>1. 1 \in 1 .. penv.stages
      BY <1>2
    <3>2. QED
      BY <1>1, <3>1, LaterStages, StageRanges
  <2>2. Placed(l) <=> ~penv.rope
    BY <1>1, <1>2, <2>1 DEF Placed
  <2> HIDE DEF l
  <2>3. \A i \in Rows : KVOf(i, hidden[i]) = Reference(l, i)
    BY <1>5 DEF Reference
  <2>4. QED
    BY <2>2, <2>3 DEF WholeRow, RowOf, CachedOf
<1> HIDE DEF l
<1>9. kv \in {NoKV, WholeRow(l)} /\ kv \in Caches
  BY <1>3, <1>8, ExtractedType DEF Caches
<1> HIDE DEF row, kv
<1>10. /\ \A t : First(t)' = First(t) /\ End(t)' = End(t)
       /\ Rows' = Rows /\ Caches' = Caches /\ (\A i : Mask(i)' = Mask(i))
       /\ \A x : WholeRow(x)' = WholeRow(x)
  BY <1>1, SameModel
<1>11. hidden' = [i \in Rows |-> HiddenStates(Mask(i))[l + 1]]
  <2>1. \A i \in Rows : Attend(Mask(i), hidden[i]) = HiddenStates(Mask(i))[l + 1]
    BY <1>1, <1>3, <1>5, WholeStates
  <2>2. QED
    BY <1>7, <2>1
<1>12. Reached' = l + 1
  <2>1. ~(s > penv.stages)
    BY <1>2
  <2>2. Reached' = First(s) + (layer + 1)
    BY <1>1, <2>1, ReachedNext DEF First, Ranges
  <2>3. QED
    BY <1>3, <2>2
<1>13. StageInv'
  <2>1. hidden' = [i \in Rows |-> HiddenStates(Mask(i))[Reached']]
    BY <1>11, <1>12
  <2>2. s \in 2 .. penv.stages + 1 /\ ~(s > penv.stages)
    BY <1>1, <1>2
  <2>3. layer + 1 \in Nat /\ layer + 1 <= End(s) - First(s)
    BY <1>1, <1>2
  <2>4. QED
    BY <1>1, <2>1, <2>2, <2>3, StageInvNext DEF First, End, Ranges
<1>14. PartsInv'
  <2>1. parts \in [1 .. penv.stages -> Seq(Caches)] /\ Len(parts[s]) = layer /\ parts[s] \in Seq(Caches)
    <3>1. ~(s < stage)
      BY <1>1, <1>2
    <3>2. QED
      BY <1>1, <3>1 DEF PrefillInv, PartsInv
  <2> DEFINE longer == Append(parts[s], kv)
  <2>2. /\ longer \in Seq(Caches) /\ Len(longer) = layer + 1
        /\ longer[layer + 1] = kv /\ \A k \in 1 .. layer : longer[k] = parts[s][k]
    BY <1>9, <2>1, AppendProperties
  <2> HIDE DEF longer
  <2>3. /\ parts' \in [1 .. penv.stages -> Seq(Caches)] /\ parts'[s] = longer
        /\ \A t \in 1 .. penv.stages : t # s => parts'[t] = parts[t]
    BY <1>6, <2>1, <2>2 DEF longer
  <2>4. ASSUME NEW t \in 1 .. penv.stages
        PROVE  /\ Len(parts'[t]) = IF t < stage THEN End(t) - First(t)
                                   ELSE IF t = stage THEN layer + 1 ELSE 0
               /\ \A k \in 1 .. Len(parts'[t]) : parts'[t][k] \in {NoKV, WholeRow(First(t) + k - 1)}
    <3>1. CASE t = s
      <4>1. Len(parts'[t]) = layer + 1 /\ ~(t < stage) /\ t = stage
        BY <1>1, <1>2, <2>2, <2>3, <3>1
      <4>2. ASSUME NEW k \in 1 .. layer + 1
            PROVE  longer[k] \in {NoKV, WholeRow(First(s) + k - 1)}
        <5>1. CASE k \in 1 .. layer
          BY <1>1, <2>1, <2>2, <5>1 DEF PrefillInv, PartsInv
        <5>2. CASE k = layer + 1
          <6>1. First(s) + k - 1 = l
            BY <1>1, <1>2, <5>2 DEF l
          <6>2. QED
            BY <1>9, <2>2, <5>2, <6>1
        <5>3. k \in 1 .. layer \/ k = layer + 1
          BY <1>1
        <5>4. QED
          BY <5>1, <5>2, <5>3
      <4>3. QED
        BY <2>3, <3>1, <4>1, <4>2
    <3>2. CASE t # s
      BY <1>1, <2>3, <3>2 DEF PrefillInv, PartsInv
    <3>3. QED
      BY <3>1, <3>2
  <2>5. QED
    BY <1>1, <1>10, <2>3, <2>4 DEF PartsInv
<1>15. LoadInv'
  BY <1>1 DEF PrefillInv, LoadInv, RunsOnlyLoaded
<1>16. QED
  BY <1>13, <1>14, <1>15 DEF PrefillInv

\* The next stage goes on where this one ends.
LEMMA ForwardEndStep ==
  ASSUME PrefillInv, NEW s \in 1 .. penv.stages, ForwardEnd(s)
  PROVE  PrefillInv'
<1>1. /\ penv \in PrefillEnvironments /\ s = stage /\ s > 1 /\ stage' = s + 1 /\ layer' = 0
      /\ layer = End(s) - First(s)
      /\ penv' = penv /\ loaded' = loaded /\ hidden' = hidden /\ parts' = parts /\ norms' \in {0, 1}
  BY DEF ForwardEnd, Ready, PrefillInv, StageInv
<1>2. /\ penv.stages \in Nat \ {0} /\ s \in Nat /\ s <= penv.stages /\ NumLayers \in Nat
      /\ First(s) \in Nat /\ End(s) \in Nat /\ End(s) <= NumLayers
  BY <1>1, PenvFacts, StageRanges
<1>3. /\ \A t : First(t)' = First(t) /\ End(t)' = End(t)
      /\ Rows' = Rows /\ Caches' = Caches /\ (\A i : Mask(i)' = Mask(i))
      /\ \A x : WholeRow(x)' = WholeRow(x)
  BY <1>1, SameModel
<1>4. Reached = End(s)
  BY <1>1, <1>2 DEF Reached
<1>5. Reached' = End(s)
  <2>1. CASE s = penv.stages
    <3>1. s + 1 > penv.stages /\ End(s) = NumLayers
      BY <1>1, <1>2, <2>1, StageRanges
    <3>2. QED
      BY <1>1, <3>1, ReachedNext
  <2>2. CASE s # penv.stages
    <3>1. s \in 1 .. penv.stages - 1 /\ s + 1 \in 1 .. penv.stages
      BY <1>2, <2>2
    <3>2. First(s + 1) = End(s)
      BY <1>1, <3>1, StageRanges
    <3>3. ~(s + 1 > penv.stages)
      BY <1>2, <3>1
    <3>4. Reached' = First(s + 1) + 0
      BY <1>1, <3>3, ReachedNext DEF First, Ranges
    <3>5. QED
      BY <1>2, <3>2, <3>4
  <2>3. QED
    BY <2>1, <2>2
<1>6. StageInv'
  <2>1. hidden' = [i \in Rows |-> HiddenStates(Mask(i))[Reached']]
    BY <1>1, <1>2, <1>4, <1>5 DEF PrefillInv, StageInv
  <2>2. s + 1 \in 2 .. penv.stages + 1
    BY <1>1, <1>2
  <2>3. s + 1 <= penv.stages => 0 <= End(s + 1) - First(s + 1)
    <3>1. ASSUME s + 1 <= penv.stages PROVE 0 <= End(s + 1) - First(s + 1)
      <4>1. s + 1 \in 1 .. penv.stages
        BY <1>2, <3>1
      <4>2. QED
        BY <1>1, <4>1, StageRanges
    <3>2. QED
      BY <3>1
  <2>4. QED
    BY <1>1, <2>1, <2>2, <2>3, StageInvNext DEF First, End, Ranges
<1>7. PartsInv'
  <2>1. ASSUME NEW t \in 1 .. penv.stages
        PROVE  Len(parts[t]) = IF t < s + 1 THEN End(t) - First(t) ELSE IF t = s + 1 THEN 0 ELSE 0
    <3>1. t \in Nat
      BY <1>2
    <3>2. CASE t < s
      BY <1>1, <1>2, <3>1, <3>2 DEF PrefillInv, PartsInv
    <3>3. CASE t = s
      BY <1>1, <1>2, <3>3 DEF PrefillInv, PartsInv
    <3>4. CASE t > s
      BY <1>1, <1>2, <3>1, <3>4 DEF PrefillInv, PartsInv
    <3>5. QED
      BY <1>2, <3>1, <3>2, <3>3, <3>4
  <2>2. QED
    BY <1>1, <1>3, <2>1 DEF PrefillInv, PartsInv
<1>8. LoadInv'
  BY <1>1 DEF PrefillInv, LoadInv, RunsOnlyLoaded
<1>9. QED
  BY <1>6, <1>7, <1>8 DEF PrefillInv

LEMMA PrefillStutter ==
  ASSUME PrefillInv, UNCHANGED prefill
  PROVE  PrefillInv'
<1>1. /\ penv' = penv /\ stage' = stage /\ layer' = layer /\ hidden' = hidden /\ parts' = parts
      /\ norms' = norms
      /\ loaded' = loaded
  BY DEF prefill
<1>2. LoadInv'
  BY <1>1 DEF PrefillInv, LoadInv, RunsOnlyLoaded
<1>3. StageInv'
  BY <1>1 DEF PrefillInv, StageInv, Reached, First, End, Ranges, Rows, Mask
<1>4. PartsInv'
  BY <1>1, SameModel DEF PrefillInv, PartsInv
<1>5. QED
  BY <1>2, <1>3, <1>4 DEF PrefillInv

LEMMA PrefillKept ==
  ASSUME PrefillInv, [Next]_vars
  PROVE  PrefillInv'
<1>1. CASE PrefillStep
  <2>1. PICK s \in 1 .. penv.stages : Load(s) \/ ForwardWhole(s) \/ ForwardLayer(s) \/ ForwardEnd(s)
    BY <1>1 DEF PrefillStep
  <2>2. QED
    BY <2>1, LoadStep, ForwardWholeStep, ForwardLayerStep, ForwardEndStep
<1>2. CASE UNCHANGED prefill
  BY <1>2, PrefillStutter
<1>3. QED
  BY <1>1, <1>2 DEF Next, Prefill, HandOver, Decode, vars
-----------------------------------------------------------------------------
(* What the stages have computed when all have run. *)

\* The caches of the stages, one after the other, are the cache of the model.
LEMMA WholeCacheFacts ==
  ASSUME PrefillInv, Prefilled
  PROVE  /\ Len(WholeCache) = NumLayers
         /\ \A l \in LayerIds : WholeCache[l + 1] \in {NoKV, WholeRow(l)}
<1> DEFINE n == penv.stages
<1>1. /\ penv \in PrefillEnvironments /\ n \in Nat \ {0} /\ NumLayers \in Nat
      /\ stage = n + 1
  BY PenvFacts DEF PrefillInv, StageInv, Prefilled
<1>2. parts \in Seq(Seq(Caches)) /\ Len(parts) = n
  <2>1. parts \in [1 .. n -> Seq(Caches)]
    BY DEF PrefillInv, PartsInv
  <2>2. QED
    BY <1>1, <2>1
<1>3. ASSUME NEW s \in 1 .. n
      PROVE  /\ parts[s] \in Seq(Caches) /\ Len(parts[s]) = End(s) - First(s)
             /\ \A k \in 1 .. Len(parts[s]) : parts[s][k] \in {NoKV, WholeRow(First(s) + k - 1)}
  <2>1. s < stage
    BY <1>1
  <2>2. QED
    BY <2>1 DEF PrefillInv, PartsInv
<1>4. /\ \A s \in 1 .. n : First(s) \in Nat /\ End(s) \in Nat /\ First(s) <= End(s) /\ End(s) <= NumLayers
      /\ First(1) = 0 /\ End(n) = NumLayers /\ \A s \in 1 .. n - 1 : First(s + 1) = End(s)
  BY <1>1, StageRanges
<1>5. PICK g \in [Nat -> Seq(Caches)] :
        g[0] = <<>> /\ Flattening(g, parts) /\ FlattenSeq(parts) = g[Len(parts)]
  BY <1>2, FlattenSeqIsLast
<1> DEFINE Q == {s \in Nat : s + 1 <= n =>
                   /\ Len(g[s + 1]) = End(s + 1)
                   /\ \A l \in 0 .. End(s + 1) - 1 : g[s + 1][l + 1] \in {NoKV, WholeRow(l)}}
<1> HIDE DEF n
<1>6. ASSUME NEW s \in Nat, s + 1 <= n
      PROVE  g[s + 1] = g[s] \o parts[s + 1]
  <2>1. s + 1 \in 1 .. Len(parts) /\ (s + 1) - 1 = s
    BY <1>1, <1>2, <1>6
  <2>2. QED
    BY <1>5, <1>6, <2>1 DEF Flattening
<1>7. ASSUME NEW s \in Nat, s + 1 <= n,
             Len(g[s]) = First(s + 1),
             \A l \in 0 .. First(s + 1) - 1 : g[s][l + 1] \in {NoKV, WholeRow(l)}
      PROVE  /\ Len(g[s + 1]) = End(s + 1)
             /\ \A l \in 0 .. End(s + 1) - 1 : g[s + 1][l + 1] \in {NoKV, WholeRow(l)}
  <2> DEFINE a == g[s]
             b == parts[s + 1]
             f == First(s + 1)
             e == End(s + 1)
  <2>1. s + 1 \in 1 .. n
    BY <1>1, <1>7
  <2>2. /\ a \in Seq(Caches) /\ b \in Seq(Caches) /\ Len(a) = f /\ Len(b) = e - f
        /\ \A k \in 1 .. Len(b) : b[k] \in {NoKV, WholeRow(f + k - 1)}
        /\ f \in Nat /\ e \in Nat /\ f <= e
    BY <1>3, <1>4, <1>5, <1>7, <2>1
  <2>3. g[s + 1] = a \o b
    BY <1>6, <1>7
  <2>4. \A l \in 0 .. f - 1 : a[l + 1] \in {NoKV, WholeRow(l)}
    BY <1>7
  <2> HIDE DEF a, b, f, e
  <2>5. /\ Len(a \o b) = e
        /\ \A j \in 1 .. e : (a \o b)[j] = IF j <= f THEN a[j] ELSE b[j - f]
    <3>1. /\ Len(a \o b) = Len(a) + Len(b)
          /\ \A j \in 1 .. Len(a) + Len(b) : (a \o b)[j] = IF j <= Len(a) THEN a[j] ELSE b[j - Len(a)]
      BY <2>2, ConcatProperties
    <3>2. Len(a) + Len(b) = e /\ Len(a) = f
      BY <2>2
    <3>3. QED
      BY <3>1, <3>2
  <2>6. ASSUME NEW l \in 0 .. e - 1
        PROVE  (a \o b)[l + 1] \in {NoKV, WholeRow(l)}
    <3>1. CASE l < f
      <4>1. l + 1 \in 1 .. e /\ l + 1 <= f /\ l \in 0 .. f - 1
        BY <2>2, <3>1
      <4>2. QED
        BY <2>4, <2>5, <4>1
    <3>2. CASE ~(l < f)
      <4>1. PICK k \in Nat : k = l + 1 - f
        BY <2>2, <3>2
      <4>2. k \in 1 .. Len(b) /\ f + k = l + 1 /\ f + k - 1 = l
        BY <2>2, <3>2, <4>1
      <4>3. l + 1 \in 1 .. e /\ ~(l + 1 <= f) /\ l + 1 - f = k
        BY <2>2, <3>2, <4>1
      <4>4. QED
        <5> DEFINE j == l + 1
        <5>0. j \in 1 .. e /\ ~(j <= f) /\ j - f = k
          BY <2>2, <4>3
        <5> HIDE DEF j
        <5>1. (a \o b)[j] = b[k]
          BY <2>5, <5>0
        <5>2. b[k] \in {NoKV, WholeRow(f + k - 1)}
          BY <2>2, <4>2
        <5>3. QED
          BY <4>2, <5>1, <5>2 DEF j
    <3>3. QED
      BY <3>1, <3>2
  <2>7. QED
    BY <2>3, <2>5, <2>6 DEF e
<1>8. 0 \in Q
  <2>1. 0 + 1 = 1 /\ 1 <= n /\ First(1) = 0
    BY <1>1, <1>4
  <2>2. Len(g[0]) = First(0 + 1)
    BY <1>5, <2>1
  <2>3. \A l \in 0 .. First(0 + 1) - 1 : g[0][l + 1] \in {NoKV, WholeRow(l)}
    BY <2>1
  <2>4. QED
    BY <1>7, <2>1, <2>2, <2>3
<1>9. ASSUME NEW s \in Nat, s \in Q PROVE s + 1 \in Q
  <2> SUFFICES ASSUME (s + 1) + 1 <= n
               PROVE  /\ Len(g[(s + 1) + 1]) = End((s + 1) + 1)
                      /\ \A l \in 0 .. End((s + 1) + 1) - 1 :
                           g[(s + 1) + 1][l + 1] \in {NoKV, WholeRow(l)}
    OBVIOUS
  <2>1. s + 1 <= n /\ s + 1 \in 1 .. n - 1 /\ s + 1 \in Nat
    BY <1>1
  <2>2. First((s + 1) + 1) = End(s + 1)
    BY <1>4, <2>1
  <2>3. /\ Len(g[s + 1]) = End(s + 1)
        /\ \A l \in 0 .. End(s + 1) - 1 : g[s + 1][l + 1] \in {NoKV, WholeRow(l)}
    BY <1>9, <2>1
  <2>4. QED
    BY <1>7, <2>1, <2>2, <2>3
<1> HIDE DEF Q
<1>10. Nat \subseteq Q
  BY <1>8, <1>9, Induction
<1>11. PICK s \in Nat : s + 1 = n
  <2>1. n - 1 \in Nat /\ (n - 1) + 1 = n
    BY <1>1
  <2>2. QED
    BY <2>1
<1>12. s \in Q /\ s + 1 <= n
  BY <1>1, <1>10, <1>11
<1>13. Len(g[n]) = NumLayers /\ \A l \in 0 .. NumLayers - 1 : g[n][l + 1] \in {NoKV, WholeRow(l)}
  BY <1>4, <1>11, <1>12 DEF Q
<1>14. WholeCache = g[n]
  BY <1>2, <1>5 DEF WholeCache
<1>15. QED
  BY <1>13, <1>14 DEF LayerIds

LEMMA StagesTogether ==
  ASSUME PrefillInv
  PROVE  StagesAreTheModel
<1>1. RunsOnlyLoaded
  BY DEF PrefillInv, LoadInv
<1>2. ASSUME Prefilled
      PROVE  /\ Len(WholeCache) = NumLayers
             /\ \A l \in LayerIds : Placed(l) /\ WholeCache[l + 1] # NoKV =>
                  WholeCache[l + 1] = [i \in Rows |-> Reference(l, i)]
             /\ \A i \in Rows : hidden[i] = HiddenStates(Mask(i))[NumLayers]
  <2>1. /\ Len(WholeCache) = NumLayers
        /\ \A l \in LayerIds : WholeCache[l + 1] \in {NoKV, WholeRow(l)}
    BY <1>2, WholeCacheFacts
  <2>2. Reached = NumLayers
    BY <1>2 DEF Prefilled, Reached
  <2>3. stage # 1
    <3>1. penv.stages \in Nat \ {0}
      BY PenvFacts DEF PrefillInv, StageInv
    <3>2. QED
      BY <1>2, <3>1 DEF Prefilled
  <2>4. \A i \in Rows : hidden[i] = HiddenStates(Mask(i))[NumLayers]
    BY <2>2, <2>3 DEF PrefillInv, StageInv
  <2>5. \A l \in LayerIds : Placed(l) => WholeRow(l) = [i \in Rows |-> Reference(l, i)]
    BY DEF WholeRow, RowOf
  <2>6. QED
    BY <2>1, <2>4, <2>5
<1>3. QED
  BY <1>1, <1>2 DEF StagesAreTheModel

\* What is cached of a prompt of the batch, row by row.
Entries == [tok: Nat \X Nat, pos: Nat, of: Hiddens]

\* What is cached for position p of a prompt is its token there, and has seen p
\* and what is before it.
LEMMA WholeRowFacts ==
  ASSUME penv \in PrefillEnvironments, NEW l \in LayerIds, NEW i \in Rows
  PROVE  /\ WholeRow(l)[i] = RowOf(l, i)
         /\ RowOf(l, i) \in Seq(Entries)
         /\ Len(RowOf(l, i)) = Width(penv.lengths)
         /\ \A p \in 1 .. penv.lengths[i] :
              /\ RowOf(l, i)[p].tok = <<i, p>>
              /\ p \in RowOf(l, i)[p].of.saw
              /\ RowOf(l, i)[p].of.saw \subseteq 1 .. p
<1> DEFINE w == Width(penv.lengths)
           h == HiddenStates(Mask(i))[l]
           pos(p) == IF Placed(l) THEN p ELSE 0
           row == [p \in 1 .. w |-> Entry(<<i, p>>, pos(p), h[p])]
<1>1. w \in Nat /\ penv.lengths[i] \in Nat \ {0} /\ penv.lengths[i] <= w
  BY MaskFacts
<1>2. l \in 0 .. NumLayers /\ i \in Nat
  BY PenvFacts DEF LayerIds, Rows
<1>3. h \in States(w) /\ Sees(h, penv.lengths[i], w)
  BY <1>2, WholeStates
<1>4. WholeRow(l)[i] = RowOf(l, i)
  BY DEF WholeRow
<1>5. Reference(l, i) = [p \in 1 .. w |-> Entry(<<i, p>>, p, h[p])]
  <2>1. Reference(l, i) = KVOf(i, h)
    BY DEF Reference
  <2> HIDE DEF w, h
  <2>2. QED
    BY <1>3, <2>1 DEF KVOf, States
<1> HIDE DEF w, h
<1>6. RowOf(l, i) = row
  <2>1. CASE Placed(l)
    BY <1>5, <2>1 DEF RowOf
  <2>2. CASE ~Placed(l)
    <3> DEFINE kv == Reference(l, i)
    <3>1. DOMAIN kv = 1 .. w /\ \A p \in 1 .. w : kv[p] = [tok |-> <<i, p>>, pos |-> p, of |-> h[p]]
      BY <1>5 DEF Entry
    <3> HIDE DEF kv
    <3>2. \A p \in 1 .. w : [kv[p] EXCEPT !.pos = 0] = [tok |-> <<i, p>>, pos |-> 0, of |-> h[p]]
      BY <3>1
    <3>3. Unplaced(kv) = [p \in 1 .. w |-> [kv[p] EXCEPT !.pos = 0]]
      BY <3>1 DEF Unplaced
    <3>4. row = [p \in 1 .. w |-> [tok |-> <<i, p>>, pos |-> 0, of |-> h[p]]]
      BY <2>2 DEF Entry
    <3>5. QED
      BY <2>2, <3>2, <3>3, <3>4 DEF RowOf, kv
  <2>3. QED
    BY <2>1, <2>2
<1>7. ASSUME NEW p \in 1 .. w
      PROVE  /\ row[p] = Entry(<<i, p>>, pos(p), h[p]) /\ row[p] \in Entries
             /\ row[p].tok = <<i, p>> /\ row[p].of = h[p]
  <2>1. p \in Nat /\ pos(p) \in Nat /\ h[p] \in Hiddens
    BY <1>1, <1>3 DEF States
  <2> HIDE DEF pos
  <2>2. QED
    BY <1>2, <2>1 DEF Entry, Entries
<1> HIDE DEF row
<1>8. row \in Seq(Entries) /\ Len(row) = w
  <2>1. row \in [1 .. w -> Entries]
    BY <1>7 DEF row
  <2>2. QED
    BY <1>1, <2>1
<1>9. ASSUME NEW p \in 1 .. penv.lengths[i]
      PROVE  /\ row[p].tok = <<i, p>> /\ p \in row[p].of.saw /\ row[p].of.saw \subseteq 1 .. p
  <2>1. p \in 1 .. w /\ p <= penv.lengths[i]
    BY <1>1
  <2>2. QED
    BY <1>3, <1>7, <2>1 DEF Sees
<1>10. QED
  BY <1>4, <1>6, <1>8, <1>9 DEF w

LEMMA CausalPrompt ==
  ASSUME PrefillInv
  PROVE  CausalCache
<1> SUFFICES ASSUME NEW s \in DOMAIN parts, NEW k \in DOMAIN parts[s], parts[s][k] # NoKV,
                    NEW i \in Rows, NEW p \in 1 .. penv.lengths[i]
             PROVE  parts[s][k][i][p].of.saw \subseteq 1 .. p
  BY DEF CausalCache
<1>1. /\ parts \in [1 .. penv.stages -> Seq(Caches)] /\ s \in 1 .. penv.stages
      /\ penv \in PrefillEnvironments
  BY DEF PrefillInv, PartsInv, StageInv
<1>2. parts[s] \in Seq(Caches) /\ k \in 1 .. Len(parts[s])
  BY <1>1
<1>3. parts[s][k] \in Caches
  BY <1>2
<1>4. PICK l \in LayerIds : parts[s][k] = WholeRow(l)
  BY <1>3 DEF Caches
<1>5. QED
  BY <1>1, <1>4, WholeRowFacts
-----------------------------------------------------------------------------
(* The decoding threads. *)

Lists == [1 .. NumLayers -> Seq(Entries)]

\* The tokens a cache has seen.
Heard(kv) == UNION {kv[q].of.saw : q \in DOMAIN kv}

DecodeTypes ==
  /\ denv \in DecodeEnvironments
  /\ given \in [Rows -> [kv: Seq(Seq(Entries)), prompt: Nat]]
  /\ lists \in Seq(Lists)
  /\ table \in [Rows -> 0 .. Len(lists)] /\ ref \in [Rows -> 0 .. Len(lists)]
  /\ pc \in [Rows -> {"idle", "get", "fresh", "layers", "clear", "done", "failed"}]
  /\ local \in [Rows -> 0 .. NumLayers]
  /\ dhidden \in [Rows -> Hiddens]
  /\ pastLen \in [Rows -> Nat] /\ tokens \in [Rows -> Nat]
  /\ used \in [Rows -> Seq(SUBSET Nat)]
  /\ cancels \in 0 .. MaxCancels

\* Layer l of the request came with a cache; it has run in this step; what the
\* layers that have not know of the conversation.
Has(r, l) == l \in DOMAIN given[r].kv /\ given[r].kv[l] # NoKV
Ran(r, l) == pc[r] = "layers" /\ l <= local[r]
Known(r) == IF tokens[r] = given[r].prompt THEN tokens[r] ELSE tokens[r] - 1

\* Between two steps of a request, and in the middle of one.
Place(r) ==
  /\ pc[r] = "idle" => given[r].kv = <<>> /\ used[r] = <<>>
  /\ pc[r] # "idle" => given[r].prompt # 0
  /\ pc[r] = "layers" => ref[r] # Nothing
  /\ pc[r] = "done" => table[r] = Nothing
  /\ pc[r] \in {"get", "fresh", "layers"} => tokens[r] = given[r].prompt + Len(used[r])
  /\ \A l \in DOMAIN given[r].kv :
       /\ Len(given[r].kv[l]) \in {0, penv.lengths[r]}
       /\ \A p \in DOMAIN given[r].kv[l] : given[r].kv[l][p].tok = <<r, p>>

\* The lists a request refers to hold its tokens only.
Mine(list, r) == \A l \in 1 .. NumLayers : \A q \in DOMAIN list[l] : list[l][q].tok[1] = r
Own(r) == /\ table[r] # Nothing => Mine(lists[table[r]], r)
          /\ ref[r] # Nothing => Mine(lists[ref[r]], r)

\* While nobody clears its cache: the list in the table is the one it works
\* on, and the caches in it are as long as they should be if the layers return
\* theirs.
Steady(r) ==
  /\ pc[r] # "fresh"
  /\ pc[r] = "get" => table[r] # Nothing
  /\ pc[r] = "layers" => ref[r] = table[r]
  /\ denv.returnsKV /\ pc[r] \in {"get", "layers"} => \A l \in 1 .. NumLayers :
       Has(r, l) => Len(lists[table[r]][l]) = pastLen[r] + (IF Ran(r, l) THEN 1 ELSE 0)

\* ... and if every layer came with one, each has seen the conversation up to
\* the token of this step, or to the one before it.
Whole(r) ==
  /\ pc[r] \in {"get", "layers"} => \A l \in 1 .. NumLayers :
       Heard(lists[table[r]][l]) = 1 .. (IF Ran(r, l) THEN tokens[r] ELSE Known(r))
  /\ pc[r] = "layers" =>
       dhidden[r].saw = IF local[r] = 0 THEN {tokens[r]} ELSE 1 .. tokens[r]
  /\ \A g \in DOMAIN used[r] : used[r][g] = 1 .. given[r].prompt + g - 1

Sound(r) == denv.returnsKV /\ Complete(r)
Request(r) == /\ Place(r) /\ Own(r)
              /\ cancels = 0 => Steady(r)
              /\ cancels = 0 /\ Sound(r) => Whole(r)

DecodeInv == DecodeTypes /\ OwnList /\ \A r \in Rows : Request(r)

LEMMA HeardAppend ==
  ASSUME NEW kv \in Seq(Entries), NEW e \in Entries
  PROVE  /\ Append(kv, e) \in Seq(Entries) /\ Len(Append(kv, e)) = Len(kv) + 1
         /\ Heard(Append(kv, e)) = Heard(kv) \cup e.of.saw
         /\ Heard(kv) \subseteq Nat
<1> DEFINE k == Append(kv, e)
<1>1. /\ k \in Seq(Entries) /\ Len(k) = Len(kv) + 1 /\ k[Len(kv) + 1] = e
      /\ \A q \in 1 .. Len(kv) : k[q] = kv[q]
      /\ Len(kv) \in Nat /\ DOMAIN kv = 1 .. Len(kv)
  BY AppendProperties
<1> HIDE DEF k
<1>2. DOMAIN k = (1 .. Len(kv)) \cup {Len(kv) + 1}
  BY <1>1
<1>3. ASSUME NEW x PROVE x \in Heard(k) <=> x \in Heard(kv) \cup e.of.saw
  <2>1. x \in Heard(k) <=> \E q \in DOMAIN k : x \in k[q].of.saw
    BY DEF Heard
  <2>2. x \in Heard(kv) <=> \E q \in DOMAIN kv : x \in kv[q].of.saw
    BY DEF Heard
  <2>3. QED
    BY <1>1, <1>2, <2>1, <2>2
<1>4. \A q \in DOMAIN kv : kv[q].of.saw \subseteq Nat
  <2>1. \A q \in DOMAIN kv : kv[q] \in Entries
    OBVIOUS
  <2>2. QED
    BY <2>1 DEF Entries, Hiddens
<1>5. Heard(kv) \subseteq Nat
  BY <1>4 DEF Heard
<1>6. QED
  BY <1>1, <1>3, <1>5 DEF k

\* The caches a request is handed: its own prompt's, or none.
LEMMA GivenFacts ==
  ASSUME PrefillInv, Prefilled, penv.stages = 1, NEW r \in Rows
  PROVE  LET m == penv.lengths[r]
             kv == SplitByLength(parts[1], r, m)
         IN  /\ m \in Nat \ {0} /\ kv \in Seq(Seq(Entries)) /\ Len(kv) = NumLayers
             /\ \A l \in 1 .. NumLayers :
                  kv[l] = NoKV \/ (/\ Len(kv[l]) = m /\ Heard(kv[l]) = 1 .. m
                                   /\ \A p \in 1 .. m : kv[l][p].tok = <<r, p>>)
<1> DEFINE m == penv.lengths[r]
           kv == SplitByLength(parts[1], r, m)
<1>1. /\ penv \in PrefillEnvironments /\ NumLayers \in Nat \ {0} /\ stage = 2
  BY PenvFacts DEF PrefillInv, StageInv, Prefilled
<1>2. m \in Nat \ {0} /\ m <= Width(penv.lengths) /\ Width(penv.lengths) \in Nat
  BY <1>1, MaskFacts
<1>3. First(1) = 0 /\ End(1) = NumLayers
  BY <1>1, StageRanges
<1>4. /\ parts[1] \in Seq(Caches) /\ Len(parts[1]) = NumLayers
      /\ \A k \in 1 .. NumLayers : parts[1][k] \in {NoKV, WholeRow(k - 1)}
  <2>1. /\ parts[1] \in Seq(Caches) /\ Len(parts[1]) = End(1) - First(1)
        /\ \A k \in 1 .. Len(parts[1]) : parts[1][k] \in {NoKV, WholeRow(First(1) + k - 1)}
    <3>1. 1 \in 1 .. penv.stages /\ 1 < stage
      BY <1>1
    <3>2. QED
      BY <3>1 DEF PrefillInv, PartsInv
  <2>2. \A k \in 1 .. NumLayers : 0 + k - 1 = k - 1
    BY <1>1
  <2>3. Len(parts[1]) = NumLayers
    BY <1>1, <1>3, <2>1
  <2>4. QED
    BY <1>3, <2>1, <2>2, <2>3
<1>5. DOMAIN parts[1] = 1 .. NumLayers
  BY <1>4
<1>6. kv = [l \in 1 .. NumLayers |-> IF parts[1][l] = NoKV THEN NoKV
                                     ELSE SubSeq(parts[1][l][r], 1, m)]
  BY <1>5 DEF SplitByLength
<1> HIDE DEF m, kv
<1>7. ASSUME NEW l \in 1 .. NumLayers, kv[l] # NoKV
      PROVE  /\ kv[l] \in Seq(Entries) /\ Len(kv[l]) = m /\ Heard(kv[l]) = 1 .. m
             /\ \A p \in 1 .. m : kv[l][p].tok = <<r, p>>
  <2>1. l - 1 \in LayerIds
    BY <1>1 DEF LayerIds
  <2>2. parts[1][l] = WholeRow(l - 1)
    BY <1>4, <1>6, <1>7
  <2> DEFINE ref0 == RowOf(l - 1, r)
  <2>3. /\ ref0 \in Seq(Entries) /\ parts[1][l][r] = ref0 /\ Len(ref0) = Width(penv.lengths)
        /\ \A p \in 1 .. m : /\ ref0[p].tok = <<r, p>>
                             /\ p \in ref0[p].of.saw /\ ref0[p].of.saw \subseteq 1 .. p
    BY <1>1, <2>1, <2>2, WholeRowFacts DEF m
  <2>4. kv[l] = SubSeq(ref0, 1, m)
    BY <1>6, <1>7, <2>3
  <2> HIDE DEF ref0
  <2>5. /\ kv[l] \in Seq(Entries) /\ Len(kv[l]) = m
        /\ \A p \in 1 .. m : kv[l][p] = ref0[p]
    BY <1>2, <2>3, <2>4
  <2>6. DOMAIN kv[l] = 1 .. m
    BY <1>2, <2>5
  <2>7. ASSUME NEW x PROVE x \in Heard(kv[l]) <=> x \in 1 .. m
    <3>1. x \in Heard(kv[l]) <=> \E p \in 1 .. m : x \in ref0[p].of.saw
      BY <2>5, <2>6 DEF Heard
    <3>2. \A p \in 1 .. m : 1 .. p \subseteq 1 .. m
      BY <1>2
    <3>3. QED
      BY <2>3, <3>1, <3>2
  <2>8. QED
    BY <2>3, <2>5, <2>7
<1>8. kv \in [1 .. NumLayers -> Seq(Entries)]
  <2>1. NoKV \in Seq(Entries)
    BY DEF NoKV
  <2>2. \A l \in 1 .. NumLayers : kv[l] \in Seq(Entries)
    BY <1>7, <2>1
  <2>3. QED
    BY <1>6, <2>2
<1>9. kv \in Seq(Seq(Entries)) /\ Len(kv) = NumLayers
  BY <1>1, <1>8
<1>10. QED
  BY <1>2, <1>7, <1>9 DEF m, kv

LEMMA PastLenFacts ==
  ASSUME NEW kv \in Seq(Seq(Entries)), NEW m \in Nat,
         \A l \in DOMAIN kv : kv[l] # NoKV => Len(kv[l]) = m
  PROVE  PastLen(kv) \in Nat /\ \A l \in DOMAIN kv : kv[l] # NoKV => PastLen(kv) = m
<1> DEFINE G == {l \in DOMAIN kv : kv[l] # NoKV}
<1>1. PastLen(kv) = IF G = {} THEN 0 ELSE Len(kv[Min(G)])
  BY DEF PastLen
<1>2. G \in SUBSET Nat
  OBVIOUS
<1>3. G # {} => Min(G) \in G
  BY <1>2, MinNat
<1> HIDE DEF G
<1>4. CASE G = {}
  BY <1>1, <1>4 DEF G
<1>5. CASE G # {}
  <2>1. Min(G) \in DOMAIN kv /\ kv[Min(G)] # NoKV
    BY <1>3, <1>5 DEF G
  <2>2. Len(kv[Min(G)]) = m
    BY <2>1
  <2>3. QED
    BY <1>1, <1>5, <2>2
<1>6. QED
  BY <1>4, <1>5

LEMMA RequestsAreRows ==
  ASSUME DecodeTypes
  PROVE  Requests = Rows
BY DEF DecodeTypes, Requests

\* A request another one's step does not touch stays as it is.
LEMMA OtherKept ==
  ASSUME NEW q \in Rows, Request(q), penv' = penv, denv' = denv,
         given'[q] = given[q], table'[q] = table[q], pc'[q] = pc[q], ref'[q] = ref[q],
         local'[q] = local[q], dhidden'[q] = dhidden[q], pastLen'[q] = pastLen[q],
         tokens'[q] = tokens[q], used'[q] = used[q], cancels' = 0 => cancels = 0,
         table[q] # Nothing => lists'[table[q]] = lists[table[q]],
         ref[q] # Nothing => lists'[ref[q]] = lists[ref[q]]
  PROVE  Request(q)'
<1>0. Own(q)'
  BY DEF Request, Own, Mine, Nothing
<1>1. Place(q)'
  BY DEF Request, Place, Nothing
<1>2. (\A l : Has(q, l)' = Has(q, l)) /\ Sound(q)' = Sound(q)
  BY DEF Has, Sound, Complete
<1>3. (\A l : Ran(q, l)' = Ran(q, l)) /\ Known(q)' = Known(q)
  BY DEF Ran, Known
<1>4. ASSUME cancels' = 0 PROVE Steady(q)' /\ (Sound(q)' => Whole(q)')
  <2>1. Steady(q) /\ (Sound(q) => Whole(q))
    BY <1>4 DEF Request
  <2>2. pc[q] = "get" => table[q] # Nothing
    BY <2>1 DEF Steady
  <2>3. pc[q] = "layers" => table[q] # Nothing
    BY <2>1 DEF Steady, Request, Place
  <2>4. pc[q] \in {"get", "layers"} => lists'[table'[q]] = lists[table[q]]
    BY <2>2, <2>3
  <2>5. Steady(q)'
    <3>1. denv'.returnsKV /\ pc'[q] \in {"get", "layers"} => \A l \in 1 .. NumLayers :
            Has(q, l)' => Len(lists'[table'[q]][l]) = pastLen'[q] + (IF Ran(q, l)' THEN 1 ELSE 0)
      BY <1>2, <1>3, <2>1, <2>4 DEF Steady
    <3>2. QED
      BY <2>1, <3>1 DEF Steady, Nothing
  <2>6. ASSUME Sound(q) PROVE Whole(q)'
    <3>1. Whole(q)
      BY <2>1, <2>6
    <3>2. pc'[q] \in {"get", "layers"} => \A l \in 1 .. NumLayers :
            Heard(lists'[table'[q]][l]) = 1 .. (IF Ran(q, l)' THEN tokens'[q] ELSE Known(q)')
      BY <1>3, <2>4, <3>1 DEF Whole
    <3>3. \A l : Heard(lists[table[q]][l])' = Heard(lists'[table'[q]][l])
      BY DEF Heard
    <3>4. QED
      BY <3>1, <3>2, <3>3 DEF Whole
  <2>7. QED
    BY <1>2, <2>5, <2>6
<1>5. QED
  BY <1>0, <1>1, <1>4 DEF Request

\* No step gives a request the list of another.
LEMMA OwnKept ==
  ASSUME DecodeTypes, OwnList, NEW r \in Rows, DOMAIN given' = Rows,
         \A q \in Rows : q # r => table'[q] = table[q] /\ ref'[q] = ref[q],
         {table'[r], ref'[r]} \subseteq {table[r], ref[r], Nothing, Len(lists) + 1}
  PROVE  OwnList'
<1>1. Requests = Rows /\ Requests' = Rows
  BY RequestsAreRows DEF Requests
<1>2. \A q \in Rows : table[q] \in 0 .. Len(lists) /\ ref[q] \in 0 .. Len(lists)
  BY DEF DecodeTypes
<1>3. Len(lists) \in Nat
  BY DEF DecodeTypes
<1>4. \A q \in Rows : table[q] # Len(lists) + 1 /\ ref[q] # Len(lists) + 1
  BY <1>2, <1>3
<1>5. \A q \in Rows : q # r =>
        /\ {table[r], ref[r]} \cap {table[q], ref[q]} \subseteq {Nothing}
        /\ {table[q], ref[q]} \cap {table[r], ref[r]} \subseteq {Nothing}
  BY <1>1 DEF OwnList
<1>6. ASSUME NEW q \in Rows, NEW p \in Rows, q # p
      PROVE  {table'[q], ref'[q]} \cap {table'[p], ref'[p]} \subseteq {Nothing}
  <2>1. CASE q = r
    BY <1>4, <1>5, <1>6, <2>1
  <2>2. CASE p = r
    BY <1>4, <1>5, <1>6, <2>2
  <2>3. CASE q # r /\ p # r
    BY <1>1, <1>6, <2>3 DEF OwnList
  <2>4. QED
    BY <2>1, <2>2, <2>3
<1>7. QED
  BY <1>1, <1>6 DEF OwnList, Nothing

\* What remains to be shown of a step of request r.
LEMMA StepKept ==
  ASSUME DecodeInv, NEW r \in Rows, penv' = penv, denv' = denv, DecodeTypes', Request(r)',
         \A q \in Rows : q # r =>
           /\ given'[q] = given[q] /\ table'[q] = table[q] /\ pc'[q] = pc[q] /\ ref'[q] = ref[q]
           /\ local'[q] = local[q] /\ dhidden'[q] = dhidden[q] /\ pastLen'[q] = pastLen[q]
           /\ tokens'[q] = tokens[q] /\ used'[q] = used[q]
           /\ table[q] # Nothing => lists'[table[q]] = lists[table[q]]
           /\ ref[q] # Nothing => lists'[ref[q]] = lists[ref[q]],
         cancels' = 0 => cancels = 0,
         {table'[r], ref'[r]} \subseteq {table[r], ref[r], Nothing, Len(lists) + 1}
  PROVE  DecodeInv'
<1>1. Rows' = Rows
  BY SameModel
<1>2. DOMAIN given' = Rows
  BY <1>1 DEF DecodeTypes
<1>3. OwnList'
  BY <1>2, OwnKept DEF DecodeInv
<1>4. \A q \in Rows : Request(q)'
  <2> SUFFICES ASSUME NEW q \in Rows, q # r PROVE Request(q)'
    OBVIOUS
  <2>1. Request(q)
    BY DEF DecodeInv
  <2>2. QED
    BY <2>1, OtherKept
<1>5. QED
  BY <1>1, <1>3, <1>4 DEF DecodeInv

\* A list that is put into the table is a new one.
LEMMA StoreFacts ==
  ASSUME DecodeTypes, NEW r \in Rows, NEW list \in Lists, Store(r, list)
  PROVE  /\ lists' \in Seq(Lists) /\ Len(lists') = Len(lists) + 1 /\ Len(lists) \in Nat
         /\ lists'[Len(lists) + 1] = list
         /\ \A o \in 1 .. Len(lists) : lists'[o] = lists[o]
         /\ table' \in [Rows -> 0 .. Len(lists')] /\ table'[r] = Len(lists) + 1
         /\ ref \in [Rows -> 0 .. Len(lists')]
         /\ \A q \in Rows : /\ q # r => table'[q] = table[q]
                            /\ table[q] # Nothing => lists'[table[q]] = lists[table[q]]
                            /\ ref[q] # Nothing => lists'[ref[q]] = lists[ref[q]]
<1>1. lists' = Append(lists, list) /\ table' = [table EXCEPT ![r] = Len(lists) + 1]
  BY DEF Store
<1>2. lists \in Seq(Lists) /\ table \in [Rows -> 0 .. Len(lists)] /\ ref \in [Rows -> 0 .. Len(lists)]
  BY DEF DecodeTypes
<1>3. /\ lists' \in Seq(Lists) /\ Len(lists') = Len(lists) + 1 /\ Len(lists) \in Nat
      /\ lists'[Len(lists) + 1] = list
      /\ \A o \in 1 .. Len(lists) : lists'[o] = lists[o]
  BY <1>1, <1>2, AppendProperties
<1>4. 0 .. Len(lists) \subseteq 0 .. Len(lists') /\ Len(lists) + 1 \in 0 .. Len(lists')
  BY <1>3
<1>5. /\ table' \in [Rows -> 0 .. Len(lists')] /\ table'[r] = Len(lists) + 1
      /\ ref \in [Rows -> 0 .. Len(lists')]
      /\ \A q \in Rows : q # r => table'[q] = table[q]
  BY <1>1, <1>2, <1>4
<1>6. ASSUME NEW q \in Rows, NEW o \in {table[q], ref[q]}, o # Nothing PROVE lists'[o] = lists[o]
  <2>1. o \in 0 .. Len(lists) /\ o # 0
    BY <1>2, <1>6 DEF Nothing
  <2>2. QED
    BY <1>3, <2>1
<1>7. QED
  BY <1>3, <1>5, <1>6

LEMMA HandOverStep ==
  ASSUME PrefillInv, DecodeInv, NEW r \in Rows, HandOver(r)
  PROVE  DecodeInv'
<1> DEFINE m == penv.lengths[r]
           kv == SplitByLength(parts[1], r, m)
<1>1. /\ Prefilled /\ penv.stages = 1 /\ pc[r] = "idle" /\ penv' = penv
      /\ given' = [given EXCEPT ![r] = [kv |-> kv, prompt |-> m]]
      /\ Store(r, Normalized(kv))
      /\ pastLen' = [pastLen EXCEPT ![r] = PastLen(kv)]
      /\ tokens' = [tokens EXCEPT ![r] = m]
      /\ pc' = [pc EXCEPT ![r] = IF MaxNewTokens = 0 THEN "clear" ELSE "get"]
      /\ denv' = denv /\ ref' = ref /\ local' = local /\ dhidden' = dhidden /\ used' = used
      /\ cancels' = cancels
  BY DEF HandOver, Start, prefill
<1>2. /\ m \in Nat \ {0} /\ kv \in Seq(Seq(Entries)) /\ Len(kv) = NumLayers
      /\ \A l \in 1 .. NumLayers :
           kv[l] = NoKV \/ (/\ Len(kv[l]) = m /\ Heard(kv[l]) = 1 .. m
                            /\ \A p \in 1 .. m : kv[l][p].tok = <<r, p>>)
  BY <1>1, GivenFacts
<1> HIDE DEF m, kv
<1>3. DecodeTypes /\ Place(r) /\ NumLayers \in Nat \ {0} /\ Rows' = Rows
  BY <1>1, NumLayersAssumption, SameModel DEF DecodeInv, Request
<1>4. DOMAIN kv = 1 .. NumLayers /\ \A l \in 1 .. NumLayers : kv[l] \in Seq(Entries)
  BY <1>2, <1>3
<1>5. Normalized(kv) = [l \in 1 .. NumLayers |-> kv[l]]
  BY <1>4 DEF Normalized
<1>6. Normalized(kv) \in Lists
  BY <1>4, <1>5 DEF Lists
<1>7. PastLen(kv) \in Nat /\ \A l \in 1 .. NumLayers : kv[l] # NoKV => PastLen(kv) = m
  BY <1>2, <1>4, PastLenFacts
<1> DEFINE n == Len(lists) + 1
<1>8. /\ lists' \in Seq(Lists) /\ n \in Nat \ {0} /\ lists'[n] = Normalized(kv)
      /\ table' \in [Rows -> 0 .. Len(lists')] /\ table'[r] = n
      /\ ref \in [Rows -> 0 .. Len(lists')]
      /\ \A q \in Rows : /\ q # r => table'[q] = table[q]
                         /\ table[q] # Nothing => lists'[table[q]] = lists[table[q]]
                         /\ ref[q] # Nothing => lists'[ref[q]] = lists[ref[q]]
  BY <1>1, <1>3, <1>6, StoreFacts
<1>9. [kv |-> kv, prompt |-> m] \in [kv: Seq(Seq(Entries)), prompt: Nat]
  BY <1>2
<1>10. DecodeTypes'
  <2>1. /\ given' \in [Rows -> [kv: Seq(Seq(Entries)), prompt: Nat]]
        /\ pastLen' \in [Rows -> Nat] /\ tokens' \in [Rows -> Nat]
        /\ pc' \in [Rows -> {"idle", "get", "fresh", "layers", "clear", "done", "failed"}]
    BY <1>1, <1>2, <1>3, <1>7, <1>9 DEF DecodeTypes
  <2>2. QED
    BY <1>1, <1>3, <1>8, <2>1 DEF DecodeTypes
<1>11. /\ given'[r].kv = kv /\ given'[r].prompt = m /\ pastLen'[r] = PastLen(kv) /\ tokens'[r] = m
       /\ pc'[r] \in {"clear", "get"} /\ used'[r] = <<>>
  BY <1>1, <1>3 DEF DecodeTypes, Place
<1>12. Place(r)'
  <2>0. \A l \in 1 .. NumLayers : DOMAIN kv[l] = 1 .. Len(kv[l])
    BY <1>4
  <2>1. \A l \in DOMAIN kv : /\ Len(kv[l]) \in {0, m}
                             /\ \A p \in DOMAIN kv[l] : kv[l][p].tok = <<r, p>>
    BY <1>2, <1>4, <2>0 DEF NoKV
  <2>2. m + Len(<<>>) = m
    BY <1>2
  <2>3. QED
    BY <1>1, <1>2, <1>11, <2>1, <2>2 DEF Place, m
<1>13. Steady(r)'
  <2>1. \A l \in 1 .. NumLayers : Has(r, l)' => Len(lists'[n][l]) = PastLen(kv) + 0
    BY <1>2, <1>5, <1>7, <1>8, <1>11 DEF Has
  <2>2. \A l : ~Ran(r, l)'
    BY <1>11 DEF Ran
  <2>3. \A l \in 1 .. NumLayers :
          Has(r, l)' => Len(lists'[table'[r]][l]) = pastLen'[r] + (IF Ran(r, l)' THEN 1 ELSE 0)
    BY <1>8, <1>11, <2>1, <2>2
  <2>4. table'[r] # Nothing
    BY <1>8 DEF Nothing
  <2>5. QED
    BY <1>11, <2>3, <2>4 DEF Steady, Nothing
<1>14. ASSUME Sound(r)' PROVE Whole(r)'
  <2>1. \A l \in 1 .. NumLayers : kv[l] # NoKV
    BY <1>11, <1>14 DEF Sound, Complete
  <2>2. Known(r)' = m
    BY <1>11 DEF Known
  <2>3. \A l \in 1 .. NumLayers : Heard(lists'[table'[r]][l]) = 1 .. m
    BY <1>2, <1>5, <1>8, <2>1
  <2>4. \A l : ~Ran(r, l)'
    BY <1>11 DEF Ran
  <2>5. \A l : Heard(lists[table[r]][l])' = Heard(lists'[table'[r]][l])
    BY DEF Heard
  <2>6. QED
    BY <1>11, <2>2, <2>3, <2>4, <2>5 DEF Whole
<1>15. Own(r)'
  <2>1. \A l \in 1 .. NumLayers : DOMAIN kv[l] = 1 .. Len(kv[l])
    BY <1>4
  <2>2. Mine(Normalized(kv), r)
    BY <1>2, <1>5, <2>1 DEF Mine, NoKV
  <2>3. Own(r)
    BY DEF DecodeInv, Request
  <2>4. /\ Mine(lists'[table'[r]], r)
        /\ ref[r] # Nothing => Mine(lists'[ref[r]], r)
    BY <1>8, <2>2, <2>3 DEF Own
  <2>5. QED
    BY <1>1, <2>4 DEF Own, Mine, Nothing
<1>15a. Request(r)'
  BY <1>12, <1>13, <1>14, <1>15 DEF Request
<1>16. \A q \in Rows : q # r =>
         /\ given'[q] = given[q] /\ pc'[q] = pc[q] /\ pastLen'[q] = pastLen[q] /\ tokens'[q] = tokens[q]
  BY <1>1, <1>3 DEF DecodeTypes
<1>17. QED
  BY <1>1, <1>8, <1>10, <1>15a, <1>16, StepKept

LEMMA GetListStep ==
  ASSUME DecodeInv, NEW r \in Rows, GetList(r), penv' = penv
  PROVE  DecodeInv'
<1>1. /\ pc[r] = "get"
      /\ ref' = [ref EXCEPT ![r] = table[r]]
      /\ local' = [local EXCEPT ![r] = 0]
      /\ dhidden' = [dhidden EXCEPT ![r] = Embedding(tokens[r])]
      /\ pc' = [pc EXCEPT ![r] = IF table[r] = Nothing THEN "fresh" ELSE "layers"]
      /\ denv' = denv /\ given' = given /\ table' = table /\ lists' = lists /\ pastLen' = pastLen
      /\ tokens' = tokens /\ used' = used /\ cancels' = cancels
  BY DEF GetList
<1>2. DecodeTypes /\ Request(r) /\ Rows' = Rows /\ NumLayers \in Nat
  BY SameModel, NumLayersAssumption DEF DecodeInv
<1>3. Embedding(tokens[r]) \in Hiddens /\ Embedding(tokens[r]).saw = {tokens[r]}
  BY <1>2 DEF Embedding, Hiddens, DecodeTypes
<1>4. DecodeTypes'
  <2>1. /\ ref' \in [Rows -> 0 .. Len(lists)] /\ local' \in [Rows -> 0 .. NumLayers]
        /\ dhidden' \in [Rows -> Hiddens]
    BY <1>1, <1>2, <1>3 DEF DecodeTypes
  <2>2. pc' \in [Rows -> {"idle", "get", "fresh", "layers", "clear", "done", "failed"}]
    BY <1>1, <1>2 DEF DecodeTypes
  <2> QED
    BY <1>1, <1>2, <2>1, <2>2 DEF DecodeTypes
<1>5. /\ ref'[r] = table[r] /\ local'[r] = 0 /\ dhidden'[r].saw = {tokens[r]}
      /\ pc'[r] = IF table[r] = Nothing THEN "fresh" ELSE "layers"
  BY <1>1, <1>2, <1>3 DEF DecodeTypes
<1>6. Place(r)'
  BY <1>1, <1>2, <1>5 DEF Request, Place, Nothing
<1>7. (\A l : Has(r, l)' = Has(r, l)) /\ Sound(r)' = Sound(r) /\ Known(r)' = Known(r)
  BY <1>1 DEF Has, Sound, Complete, Known
<1>8. \A l \in 1 .. NumLayers : ~Ran(r, l) /\ ~Ran(r, l)'
  BY <1>1, <1>2, <1>5 DEF Ran
<1>9. ASSUME cancels = 0 PROVE Steady(r)' /\ (Sound(r)' => Whole(r)')
  <2>1. Steady(r) /\ (Sound(r) => Whole(r))
    BY <1>2, <1>9 DEF Request
  <2>2. table[r] # Nothing /\ pc'[r] = "layers"
    BY <1>1, <1>5, <2>1 DEF Steady
  <2>3. denv.returnsKV => \A l \in 1 .. NumLayers :
          Has(r, l)' => Len(lists'[table'[r]][l]) = pastLen'[r] + (IF Ran(r, l)' THEN 1 ELSE 0)
    BY <1>1, <1>7, <1>8, <2>1 DEF Steady
  <2>4. Steady(r)'
    BY <1>1, <1>5, <2>2, <2>3 DEF Steady, Nothing
  <2>5. ASSUME Sound(r) PROVE Whole(r)'
    <3>1. Whole(r)
      BY <2>1, <2>5
    <3>2. \A l : Heard(lists[table[r]][l])' = Heard(lists[table[r]][l])
      BY <1>1 DEF Heard
    <3>3. \A l \in 1 .. NumLayers :
            Heard(lists[table[r]][l])' = 1 .. (IF Ran(r, l)' THEN tokens'[r] ELSE Known(r)')
      BY <1>1, <1>7, <1>8, <3>1, <3>2 DEF Whole
    <3>4. QED
      BY <1>1, <1>5, <3>1, <3>3 DEF Whole
  <2>6. QED
    BY <1>7, <2>4, <2>5
<1>10. Own(r)'
  BY <1>1, <1>2, <1>5 DEF Request, Own, Mine, Nothing
<1>10a. Request(r)'
  BY <1>1, <1>6, <1>9, <1>10 DEF Request
<1>11. \A q \in Rows : q # r =>
         /\ ref'[q] = ref[q] /\ local'[q] = local[q] /\ dhidden'[q] = dhidden[q] /\ pc'[q] = pc[q]
  BY <1>1, <1>2 DEF DecodeTypes
<1>12. QED
  BY <1>1, <1>4, <1>5, <1>10a, <1>11, StepKept

LEMMA StoreFreshStep ==
  ASSUME DecodeInv, NEW r \in Rows, StoreFresh(r), penv' = penv
  PROVE  DecodeInv'
<1>1. /\ pc[r] = "fresh" /\ Store(r, Fresh)
      /\ ref' = [ref EXCEPT ![r] = Len(lists) + 1]
      /\ pc' = [pc EXCEPT ![r] = "layers"]
      /\ denv' = denv /\ given' = given /\ local' = local /\ dhidden' = dhidden /\ pastLen' = pastLen
      /\ tokens' = tokens /\ used' = used /\ cancels' = cancels
  BY DEF StoreFresh
<1>2. DecodeTypes /\ Request(r) /\ Rows' = Rows /\ NumLayers \in Nat
  BY SameModel, NumLayersAssumption DEF DecodeInv
<1>3. Fresh \in Lists
  BY DEF Fresh, Lists, NoKV
<1> DEFINE n == Len(lists) + 1
<1>4. /\ lists' \in Seq(Lists) /\ n \in Nat \ {0} /\ n \in 0 .. Len(lists')
      /\ table' \in [Rows -> 0 .. Len(lists')] /\ table'[r] = n
      /\ ref \in [Rows -> 0 .. Len(lists')]
      /\ \A q \in Rows : /\ q # r => table'[q] = table[q]
                         /\ table[q] # Nothing => lists'[table[q]] = lists[table[q]]
                         /\ ref[q] # Nothing => lists'[ref[q]] = lists[ref[q]]
  BY <1>1, <1>2, <1>3, StoreFacts
<1>4a. lists'[n] = Fresh
  BY <1>1, <1>2, <1>3, StoreFacts
<1> HIDE DEF n
<1>5. ref' = [ref EXCEPT ![r] = n]
  BY <1>1 DEF n
<1>6. DecodeTypes'
  <2>1. /\ ref' \in [Rows -> 0 .. Len(lists')]
        /\ pc' \in [Rows -> {"idle", "get", "fresh", "layers", "clear", "done", "failed"}]
    BY <1>1, <1>2, <1>4, <1>5 DEF DecodeTypes
  <2>2. QED
    BY <1>1, <1>2, <1>4, <2>1 DEF DecodeTypes
<1>7. ref'[r] = n /\ pc'[r] = "layers" /\ n # Nothing
  BY <1>1, <1>2, <1>4, <1>5 DEF DecodeTypes, Nothing
<1>8. Place(r)'
  BY <1>1, <1>2, <1>7 DEF Request, Place, Nothing
<1>9. cancels # 0
  BY <1>1, <1>2 DEF Request, Steady
<1>10. Own(r)'
  <2>1. Mine(lists'[n], r)
    BY <1>4a DEF Mine, Fresh, NoKV
  <2>2. QED
    BY <1>4, <1>7, <2>1 DEF Own, Mine
<1>10a. Request(r)'
  BY <1>1, <1>8, <1>9, <1>10 DEF Request
<1>11. \A q \in Rows : q # r => ref'[q] = ref[q] /\ pc'[q] = pc[q]
  BY <1>1, <1>2 DEF DecodeTypes
<1>12. {table'[r], ref'[r]} \subseteq {table[r], ref[r], Nothing, Len(lists) + 1}
  BY <1>4, <1>7 DEF n
<1>13. QED
  BY <1>1, <1>4, <1>6, <1>10a, <1>11, <1>12, StepKept

\* One layer: only its own list, and only this layer of it, gets longer.
LEMMA RunLayerStep ==
  ASSUME penv \in PrefillEnvironments, DecodeInv, NEW r \in Rows, RunLayer(r), penv' = penv
  PROVE  DecodeInv'
<1> DEFINE d == local[r] + 1
           o == ref[r]
           e == Entry(<<r, tokens[r]>>, pastLen[r] + 1, dhidden[r])
           kv == Append(lists[o][d], e)
<1>1. /\ pc[r] = "layers" /\ local[r] < NumLayers
      /\ lists' = IF denv.returnsKV THEN [lists EXCEPT ![o][d] = kv] ELSE lists
      /\ dhidden' = [dhidden EXCEPT ![r] = [saw |-> Heard(kv), depth |-> d]]
      /\ local' = [local EXCEPT ![r] = d]
      /\ denv' = denv /\ given' = given /\ table' = table /\ pc' = pc /\ ref' = ref
      /\ pastLen' = pastLen /\ tokens' = tokens /\ used' = used /\ cancels' = cancels
  BY DEF RunLayer, Heard
<1>2. DecodeTypes /\ Request(r) /\ Rows' = Rows /\ NumLayers \in Nat \ {0} /\ OwnList
  BY SameModel, NumLayersAssumption DEF DecodeInv
<1>3. o \in 1 .. Len(lists) /\ o # Nothing
  <2>1. o # Nothing /\ o \in 0 .. Len(lists) /\ Len(lists) \in Nat
    BY <1>1, <1>2 DEF Request, Place, DecodeTypes
  <2>2. QED
    BY <2>1 DEF Nothing
<1>4. local[r] \in Nat /\ d \in 1 .. NumLayers /\ d \in Nat
  BY <1>1, <1>2 DEF DecodeTypes
<1>5. lists \in Seq(Lists) /\ lists[o] \in Lists /\ lists[o][d] \in Seq(Entries)
  <2>1. lists \in Seq(Lists)
    BY <1>2 DEF DecodeTypes
  <2>2. lists[o] \in Lists
    BY <1>3, <2>1
  <2>3. QED
    BY <1>4, <2>1, <2>2 DEF Lists
<1>6. e \in Entries /\ e.of = dhidden[r] /\ e.tok[1] = r
  <2>1. tokens[r] \in Nat /\ pastLen[r] \in Nat /\ dhidden[r] \in Hiddens /\ r \in Nat
    BY <1>2, PenvFacts DEF DecodeTypes, Rows
  <2>2. QED
    BY <2>1 DEF Entry, Entries
<1>7. dhidden[r] \in Hiddens /\ dhidden[r].saw \subseteq Nat
  BY <1>2 DEF DecodeTypes, Hiddens
<1> HIDE DEF e
<1>8. /\ kv \in Seq(Entries) /\ Len(kv) = Len(lists[o][d]) + 1
      /\ Heard(kv) = Heard(lists[o][d]) \cup dhidden[r].saw
      /\ Heard(kv) \subseteq Nat
  BY <1>5, <1>6, <1>7, HeardAppend
<1>8a. DOMAIN kv = 1 .. Len(kv) /\ \A q \in DOMAIN kv : q \in DOMAIN lists[o][d] \/ kv[q] = e
  BY <1>5, <1>6, AppendProperties
<1>8b. \A q \in DOMAIN lists[o][d] : kv[q] = lists[o][d][q]
  BY <1>5, <1>6, AppendProperties
<1> HIDE DEF kv, d, o
<1>9. /\ Len(lists') = Len(lists) /\ lists' \in Seq(Lists)
      /\ IF denv.returnsKV THEN lists'[o][d] = kv ELSE lists'[o][d] = lists[o][d]
      /\ \A l \in 1 .. NumLayers : l # d => lists'[o][l] = lists[o][l]
      /\ \A p \in 1 .. Len(lists) : p # o => lists'[p] = lists[p]
  <2>1. CASE ~denv.returnsKV
    BY <1>1, <1>5, <2>1
  <2>2. CASE denv.returnsKV
    <3>1. lists' = [lists EXCEPT ![o] = [lists[o] EXCEPT ![d] = kv]]
      BY <1>1, <2>2
    <3> DEFINE new == [lists[o] EXCEPT ![d] = kv]
    <3>2. new \in Lists /\ new[d] = kv /\ \A l \in 1 .. NumLayers : l # d => new[l] = lists[o][l]
      BY <1>4, <1>5, <1>8 DEF Lists
    <3> HIDE DEF new
    <3>3. lists' = [lists EXCEPT ![o] = new]
      BY <3>1 DEF new
    <3>4. /\ Len(lists') = Len(lists) /\ lists' \in Seq(Lists) /\ lists'[o] = new
          /\ \A p \in 1 .. Len(lists) : p # o => lists'[p] = lists[p]
      BY <1>3, <1>5, <3>2, <3>3
    <3>5. QED
      BY <2>2, <3>2, <3>4
  <2>3. QED
    BY <2>1, <2>2
<1>10. DecodeTypes'
  <2>1. [saw |-> Heard(kv), depth |-> d] \in Hiddens
    BY <1>4, <1>8 DEF Hiddens
  <2>2. dhidden' \in [Rows -> Hiddens] /\ local' \in [Rows -> 0 .. NumLayers]
    BY <1>1, <1>2, <1>4, <2>1 DEF DecodeTypes
  <2>3. QED
    BY <1>1, <1>2, <1>9, <2>2 DEF DecodeTypes
<1>11. local'[r] = d /\ dhidden'[r].saw = Heard(kv)
  BY <1>1, <1>2 DEF DecodeTypes
<1>12. Place(r)'
  BY <1>1, <1>2 DEF Request, Place, Nothing
<1>13. (\A l : Has(r, l)' = Has(r, l)) /\ Sound(r)' = Sound(r) /\ Known(r)' = Known(r)
  BY <1>1 DEF Has, Sound, Complete, Known
<1>14. /\ ~(d <= local[r]) /\ d <= d
       /\ \A l \in 1 .. NumLayers : l # d => (l <= d <=> l <= local[r])
  BY <1>1, <1>4 DEF d
<1>15. ASSUME cancels = 0 PROVE Steady(r)' /\ (Sound(r)' => Whole(r)')
  <2>1. Steady(r) /\ (Sound(r) => Whole(r))
    BY <1>2, <1>15 DEF Request
  <2>2. o = table[r]
    BY <1>1, <2>1 DEF Steady, o
  <2>3. ASSUME denv.returnsKV, NEW l \in 1 .. NumLayers, Has(r, l)
        PROVE  Len(lists'[o][l]) = pastLen[r] + (IF l <= d THEN 1 ELSE 0)
    <3>1. Len(lists[o][l]) = pastLen[r] + (IF l <= local[r] THEN 1 ELSE 0)
      BY <1>1, <2>1, <2>2, <2>3 DEF Steady, Ran
    <3>2. pastLen[r] \in Nat
      BY <1>2 DEF DecodeTypes
    <3>3. CASE l = d
      <4>1. Len(lists[o][d]) = pastLen[r] + 0
        BY <1>14, <3>1, <3>3
      <4>2. Len(lists'[o][d]) = pastLen[r] + 0 + 1
        BY <1>8, <1>9, <2>3, <4>1
      <4>3. QED
        BY <1>14, <3>2, <3>3, <4>2
    <3>4. CASE l # d
      <4>1. lists'[o][l] = lists[o][l] /\ (l <= d <=> l <= local[r])
        BY <1>9, <1>14, <3>4
      <4>2. QED
        BY <3>1, <4>1
    <3>5. QED
      BY <3>3, <3>4
  <2>4. Steady(r)'
    <3>1. denv.returnsKV => \A l \in 1 .. NumLayers :
            Has(r, l)' => Len(lists'[table'[r]][l]) = pastLen'[r] + (IF l <= d THEN 1 ELSE 0)
      BY <1>1, <1>13, <2>2, <2>3
    <3>2. QED
      BY <1>1, <1>11, <2>1, <3>1 DEF Steady, Ran
  <2>5. ASSUME Sound(r) PROVE Whole(r)'
    <3>1. Whole(r)
      BY <2>1, <2>5
    <3> DEFINE t == tokens[r]
    <3>2. t \in Nat \ {0} /\ Known(r) \in {t, t - 1}
      <4>1. t = given[r].prompt + Len(used[r]) /\ given[r].prompt # 0
        BY <1>1, <1>2 DEF Request, Place
      <4>2. given[r].prompt \in Nat /\ Len(used[r]) \in Nat
        BY <1>2 DEF DecodeTypes
      <4>3. Known(r) \in {t, t - 1}
        BY DEF Known
      <4>4. QED
        BY <4>1, <4>2, <4>3
    <3>3. \A l \in 1 .. NumLayers : Heard(lists[o][l]) = 1 .. (IF l <= local[r] THEN t ELSE Known(r))
      BY <1>1, <2>2, <3>1 DEF Whole, Ran
    <3>4. dhidden[r].saw = IF local[r] = 0 THEN {t} ELSE 1 .. t
      BY <1>1, <3>1 DEF Whole
    <3>5. Heard(lists[o][d]) = 1 .. Known(r)
      BY <1>4, <1>14, <3>3
    <3> HIDE DEF t
    <3>6. Heard(kv) = 1 .. t
      <4>1. (1 .. Known(r)) \cup {t} = 1 .. t /\ (1 .. Known(r)) \cup (1 .. t) = 1 .. t
        BY <3>2
      <4>2. QED
        BY <1>8, <3>4, <3>5, <4>1
    <3>7. ASSUME NEW l \in 1 .. NumLayers
          PROVE  Heard(lists'[o][l]) = 1 .. (IF l <= d THEN t ELSE Known(r))
      <4>1. CASE l = d
        BY <1>9, <1>14, <2>5, <3>6, <4>1 DEF Sound
      <4>2. CASE l # d
        <5>1. lists'[o][l] = lists[o][l] /\ (l <= d <=> l <= local[r])
          BY <1>9, <1>14, <4>2
        <5>2. QED
          BY <3>3, <5>1
      <4>3. QED
        BY <4>1, <4>2
    <3>8. \A l : Heard(lists[table[r]][l])' = Heard(lists'[o][l])
      BY <1>1, <2>2 DEF Heard
    <3>9. \A l \in 1 .. NumLayers :
            Heard(lists[table[r]][l])' = 1 .. (IF l <= d THEN tokens'[r] ELSE Known(r)')
      BY <1>1, <1>13, <3>7, <3>8 DEF t
    <3>10. dhidden'[r].saw = 1 .. tokens'[r] /\ local'[r] # 0
      BY <1>1, <1>4, <1>11, <3>6 DEF t
    <3>11. QED
      BY <1>1, <1>11, <3>1, <3>9, <3>10 DEF Whole, Ran
  <2>6. QED
    BY <1>13, <2>4, <2>5
<1>16. Own(r)'
  <2>1. Mine(lists'[o], r)
    <3>1. Mine(lists[o], r)
      BY <1>2, <1>3 DEF Request, Own, o
    <3>2. ASSUME NEW q \in DOMAIN kv PROVE kv[q].tok[1] = r
      BY <1>4, <1>6, <1>8a, <1>8b, <3>1 DEF Mine
    <3>3. QED
      BY <1>9, <3>1, <3>2 DEF Mine
  <2>2. ASSUME table[r] # Nothing PROVE Mine(lists'[table[r]], r)
    <3>1. Mine(lists[table[r]], r)
      BY <1>2, <2>2 DEF Request, Own
    <3>2. CASE table[r] = o
      BY <2>1, <3>2
    <3>3. CASE table[r] # o
      <4>1. table[r] \in 0 .. Len(lists) /\ table[r] # 0
        BY <1>2, <2>2 DEF DecodeTypes, Nothing
      <4>2. QED
        BY <1>9, <3>1, <3>3, <4>1
    <3>4. QED
      BY <3>2, <3>3
  <2>3. QED
    BY <1>1, <2>1, <2>2 DEF Own, Mine, Nothing, o
<1>16a. Request(r)'
  BY <1>1, <1>12, <1>15, <1>16 DEF Request
<1>17. ASSUME NEW q \in Rows, q # r
       PROVE  /\ dhidden'[q] = dhidden[q] /\ local'[q] = local[q]
              /\ table[q] # Nothing => lists'[table[q]] = lists[table[q]]
              /\ ref[q] # Nothing => lists'[ref[q]] = lists[ref[q]]
  <2>1. dhidden'[q] = dhidden[q] /\ local'[q] = local[q]
    BY <1>1, <1>2, <1>17 DEF DecodeTypes
  <2>2. ASSUME NEW x \in {table[q], ref[q]}, x # Nothing PROVE lists'[x] = lists[x]
    <3>1. {table[q], ref[q]} \cap {table[r], ref[r]} \subseteq {Nothing}
      BY <1>2, <1>17, RequestsAreRows DEF OwnList
    <3>2. x # o
      BY <2>2, <3>1 DEF o
    <3>3. x \in 0 .. Len(lists) /\ x # 0
      BY <1>2, <1>17, <2>2 DEF DecodeTypes, Nothing
    <3>4. QED
      BY <1>9, <3>2, <3>3
  <2>3. QED
    BY <2>1, <2>2
<1>18. QED
  BY <1>1, <1>10, <1>16a, <1>17, StepKept

LEMMA RaiseStep ==
  ASSUME DecodeInv, NEW r \in Rows, Raise(r), penv' = penv
  PROVE  DecodeInv'
<1>1. /\ pc' = [pc EXCEPT ![r] = "failed"] /\ pc[r] \in {"get", "layers"}
      /\ denv' = denv /\ given' = given /\ table' = table /\ lists' = lists /\ ref' = ref
      /\ local' = local /\ dhidden' = dhidden /\ pastLen' = pastLen
      /\ tokens' = tokens /\ used' = used /\ cancels' = cancels
  BY DEF Raise
<1>2. DecodeTypes /\ Request(r) /\ Rows' = Rows
  BY SameModel DEF DecodeInv
<1>3. DecodeTypes'
  BY <1>1, <1>2 DEF DecodeTypes
<1>4. pc'[r] = "failed"
  BY <1>1, <1>2 DEF DecodeTypes
<1>5. Place(r)'
  BY <1>1, <1>2, <1>4 DEF Request, Place
<1>6. Steady(r)'
  BY <1>4 DEF Steady
<1>7. Sound(r)' = Sound(r)
  BY <1>1 DEF Sound, Complete
<1>8. ASSUME cancels = 0, Sound(r) PROVE Whole(r)'
  BY <1>1, <1>2, <1>4, <1>8 DEF Request, Whole
<1>8a. Own(r)'
  BY <1>1, <1>2, <1>4 DEF Request, Own, Mine, Nothing
<1>9. Request(r)'
  BY <1>1, <1>5, <1>6, <1>7, <1>8, <1>8a DEF Request
<1>10. \A q \in Rows : q # r => pc'[q] = pc[q]
  BY <1>1, <1>2 DEF DecodeTypes
<1>11. QED
  BY <1>1, <1>3, <1>9, <1>10, StepKept

LEMMA EndStepStep ==
  ASSUME DecodeInv, NEW r \in Rows, EndStep(r), penv' = penv
  PROVE  DecodeInv'
<1> DEFINE t == tokens[r]
           longer == Append(used[r], dhidden[r].saw)
<1>1. /\ pc[r] = "layers" /\ local[r] = NumLayers
      /\ table' = [table EXCEPT ![r] = ref[r]]
      /\ used' = [used EXCEPT ![r] = longer]
      /\ tokens' = [tokens EXCEPT ![r] = t + 1]
      /\ pastLen' = [pastLen EXCEPT ![r] = pastLen[r] + 1]
      /\ pc' = [pc EXCEPT ![r] = IF t + 1 = given[r].prompt + MaxNewTokens THEN "clear" ELSE "get"]
      /\ denv' = denv /\ given' = given /\ lists' = lists /\ ref' = ref /\ local' = local
      /\ dhidden' = dhidden /\ cancels' = cancels
  BY DEF EndStep
<1>2. DecodeTypes /\ Request(r) /\ Rows' = Rows /\ NumLayers \in Nat \ {0}
  BY SameModel, NumLayersAssumption DEF DecodeInv
<1>3. /\ t \in Nat /\ pastLen[r] \in Nat /\ used[r] \in Seq(SUBSET Nat) /\ dhidden[r].saw \in SUBSET Nat
      /\ given[r].prompt \in Nat /\ ref[r] \in 0 .. Len(lists)
  BY <1>2 DEF DecodeTypes, Hiddens
<1>4. /\ longer \in Seq(SUBSET Nat) /\ Len(longer) = Len(used[r]) + 1 /\ Len(used[r]) \in Nat
      /\ longer[Len(used[r]) + 1] = dhidden[r].saw
      /\ \A g \in 1 .. Len(used[r]) : longer[g] = used[r][g]
  BY <1>3, AppendProperties
<1> HIDE DEF t, longer
<1>5. DecodeTypes'
  <2>1. /\ table' \in [Rows -> 0 .. Len(lists)] /\ used' \in [Rows -> Seq(SUBSET Nat)]
        /\ tokens' \in [Rows -> Nat] /\ pastLen' \in [Rows -> Nat]
        /\ pc' \in [Rows -> {"idle", "get", "fresh", "layers", "clear", "done", "failed"}]
    <3>1. table' \in [Rows -> 0 .. Len(lists)] /\ used' \in [Rows -> Seq(SUBSET Nat)]
      BY <1>1, <1>2, <1>3, <1>4 DEF DecodeTypes
    <3>2. tokens' \in [Rows -> Nat] /\ pastLen' \in [Rows -> Nat]
      BY <1>1, <1>2, <1>3 DEF DecodeTypes
    <3>3. pc' \in [Rows -> {"idle", "get", "fresh", "layers", "clear", "done", "failed"}]
      BY <1>1, <1>2 DEF DecodeTypes
    <3> QED
      BY <3>1, <3>2, <3>3
  <2>2. QED
    BY <1>1, <1>2, <2>1 DEF DecodeTypes
<1>6. /\ table'[r] = ref[r] /\ used'[r] = longer /\ tokens'[r] = t + 1 /\ pastLen'[r] = pastLen[r] + 1
      /\ pc'[r] \in {"clear", "get"}
  BY <1>1, <1>2 DEF DecodeTypes
<1>7. t = given[r].prompt + Len(used[r]) /\ given[r].prompt # 0 /\ ref[r] # Nothing
  BY <1>1, <1>2 DEF Request, Place, t
<1>8. Place(r)'
  <2>1. t + 1 = given[r].prompt + Len(longer)
    BY <1>3, <1>4, <1>7
  <2>2. QED
    BY <1>1, <1>2, <1>6, <2>1 DEF Request, Place
<1>9. (\A l : Has(r, l)' = Has(r, l)) /\ Sound(r)' = Sound(r)
  BY <1>1 DEF Has, Sound, Complete
<1>10. \A l \in 1 .. NumLayers : Ran(r, l) /\ ~Ran(r, l)'
  BY <1>1, <1>2, <1>6 DEF Ran
<1>11. Known(r)' = t
  <2>1. given'[r].prompt = given[r].prompt /\ t + 1 # given[r].prompt /\ (t + 1) - 1 = t
    BY <1>1, <1>3, <1>4, <1>7
  <2>2. QED
    BY <1>6, <2>1 DEF Known
<1>12. ASSUME cancels = 0 PROVE Steady(r)' /\ (Sound(r)' => Whole(r)')
  <2>1. Steady(r) /\ (Sound(r) => Whole(r))
    BY <1>2, <1>12 DEF Request
  <2>2. ref[r] = table[r]
    BY <1>1, <2>1 DEF Steady
  <2>3. denv.returnsKV => \A l \in 1 .. NumLayers :
          Has(r, l) => Len(lists[table[r]][l]) = pastLen[r] + 1
    BY <1>1, <1>10, <2>1 DEF Steady
  <2>4. denv.returnsKV => \A l \in 1 .. NumLayers :
          Has(r, l)' => Len(lists'[table'[r]][l]) = pastLen'[r] + (IF Ran(r, l)' THEN 1 ELSE 0)
    BY <1>1, <1>3, <1>6, <1>9, <1>10, <2>2, <2>3
  <2>5. Steady(r)'
    BY <1>1, <1>6, <1>7, <2>4 DEF Steady, Nothing
  <2>6. ASSUME Sound(r) PROVE Whole(r)'
    <3>1. Whole(r)
      BY <2>1, <2>6
    <3>2. \A l \in 1 .. NumLayers : Heard(lists[table[r]][l]) = 1 .. t
      BY <1>1, <1>10, <3>1 DEF Whole, t
    <3>3. \A l : Heard(lists[table[r]][l])' = Heard(lists[table[r]][l])
      BY <1>1, <1>6, <2>2 DEF Heard
    <3>4. \A l \in 1 .. NumLayers :
            Heard(lists[table[r]][l])' = 1 .. (IF Ran(r, l)' THEN tokens'[r] ELSE Known(r)')
      BY <1>10, <1>11, <3>2, <3>3
    <3>5. dhidden[r].saw = 1 .. t
      BY <1>1, <1>2, <3>1 DEF Whole, t
    <3>6. ASSUME NEW g \in DOMAIN longer PROVE longer[g] = 1 .. given[r].prompt + g - 1
      <4>1. g \in 1 .. Len(used[r]) \/ g = Len(used[r]) + 1
        BY <1>4
      <4>2. CASE g \in 1 .. Len(used[r])
        <5>1. longer[g] = used[r][g]
          BY <1>4, <4>2
        <5>2. g \in DOMAIN used[r]
          BY <1>3, <4>2
        <5>3. used[r][g] = 1 .. given[r].prompt + g - 1
          BY <3>1, <5>2 DEF Whole
        <5> QED
          BY <5>1, <5>3
      <4>3. CASE g = Len(used[r]) + 1
        <5>1. given[r].prompt + g - 1 = t
          BY <1>3, <1>4, <1>7, <4>3
        <5>2. QED
          BY <1>4, <3>5, <4>3, <5>1
      <4>4. QED
        BY <4>1, <4>2, <4>3
    <3>7. \A g \in DOMAIN used'[r] : used'[r][g] = 1 .. given'[r].prompt + g - 1
      BY <1>1, <1>6, <3>6
    <3>8. QED
      BY <1>6, <3>4, <3>7 DEF Whole
  <2>7. QED
    BY <1>9, <2>5, <2>6
<1>13. Own(r)'
  BY <1>1, <1>2, <1>6 DEF Request, Own, Mine, Nothing
<1>13a. Request(r)'
  BY <1>1, <1>8, <1>12, <1>13 DEF Request
<1>14. \A q \in Rows : q # r =>
         /\ table'[q] = table[q] /\ used'[q] = used[q] /\ tokens'[q] = tokens[q]
         /\ pastLen'[q] = pastLen[q] /\ pc'[q] = pc[q]
  BY <1>1, <1>2 DEF DecodeTypes
<1>15. QED
  BY <1>1, <1>5, <1>6, <1>13a, <1>14, StepKept

LEMMA FinishStep ==
  ASSUME DecodeInv, NEW r \in Rows, Finish(r), penv' = penv
  PROVE  DecodeInv'
<1>1. /\ pc[r] = "clear" /\ table' = [table EXCEPT ![r] = Nothing] /\ pc' = [pc EXCEPT ![r] = "done"]
      /\ denv' = denv /\ given' = given /\ lists' = lists /\ ref' = ref
      /\ local' = local /\ dhidden' = dhidden /\ pastLen' = pastLen
      /\ tokens' = tokens /\ used' = used /\ cancels' = cancels
  BY DEF Finish
<1>2. DecodeTypes /\ Request(r) /\ Rows' = Rows
  BY SameModel DEF DecodeInv
<1>3. DecodeTypes'
  <2>1. Nothing \in 0 .. Len(lists)
    BY <1>2 DEF DecodeTypes, Nothing
  <2>2. QED
    BY <1>1, <1>2, <2>1 DEF DecodeTypes
<1>4. pc'[r] = "done" /\ table'[r] = Nothing
  BY <1>1, <1>2 DEF DecodeTypes
<1>5. Place(r)'
  BY <1>1, <1>2, <1>4 DEF Request, Place, Nothing
<1>6. Steady(r)'
  BY <1>4 DEF Steady
<1>7. Sound(r)' = Sound(r)
  BY <1>1 DEF Sound, Complete
<1>8. ASSUME cancels = 0, Sound(r) PROVE Whole(r)'
  BY <1>1, <1>2, <1>4, <1>8 DEF Request, Whole
<1>8a. Own(r)'
  BY <1>1, <1>2, <1>4 DEF Request, Own, Mine, Nothing
<1>9. Request(r)'
  BY <1>1, <1>5, <1>6, <1>7, <1>8, <1>8a DEF Request
<1>10. \A q \in Rows : q # r => pc'[q] = pc[q] /\ table'[q] = table[q]
  BY <1>1, <1>2 DEF DecodeTypes
<1>11. QED
  BY <1>1, <1>3, <1>4, <1>9, <1>10, StepKept

LEMMA CancelStep ==
  ASSUME DecodeInv, NEW r \in Rows, Cancel(r), penv' = penv
  PROVE  DecodeInv'
<1>1. /\ cancels < MaxCancels /\ cancels' = cancels + 1 /\ table' = [table EXCEPT ![r] = Nothing]
      /\ denv' = denv /\ given' = given /\ lists' = lists /\ ref' = ref /\ pc' = pc
      /\ local' = local /\ dhidden' = dhidden /\ pastLen' = pastLen
      /\ tokens' = tokens /\ used' = used
  BY DEF Cancel
<1>2. DecodeTypes /\ Request(r) /\ Rows' = Rows
  BY SameModel DEF DecodeInv
<1>3. cancels' \in 0 .. MaxCancels /\ cancels' # 0
  BY <1>1, <1>2, MaxCancelsAssumption DEF DecodeTypes
<1>4. DecodeTypes'
  <2>1. Nothing \in 0 .. Len(lists)
    BY <1>2 DEF DecodeTypes, Nothing
  <2>2. QED
    BY <1>1, <1>2, <1>3, <2>1 DEF DecodeTypes
<1>5. table'[r] = Nothing
  BY <1>1, <1>2 DEF DecodeTypes
<1>6. Place(r)'
  BY <1>1, <1>2, <1>5 DEF Request, Place, Nothing
<1>7. Own(r)'
  BY <1>1, <1>2, <1>5 DEF Request, Own, Mine, Nothing
<1>7a. Request(r)'
  BY <1>3, <1>6, <1>7 DEF Request
<1>8. \A q \in Rows : q # r => table'[q] = table[q]
  BY <1>1, <1>2 DEF DecodeTypes
<1>9. QED
  BY <1>1, <1>3, <1>4, <1>5, <1>7a, <1>8, StepKept

LEMMA DecodeStutter ==
  ASSUME DecodeInv, UNCHANGED decode, penv' = penv
  PROVE  DecodeInv'
<1>1. /\ denv' = denv /\ given' = given /\ table' = table /\ lists' = lists /\ pc' = pc /\ ref' = ref
      /\ local' = local /\ dhidden' = dhidden /\ pastLen' = pastLen /\ tokens' = tokens /\ used' = used
      /\ cancels' = cancels
  BY DEF decode
<1>2. Rows' = Rows
  BY SameModel
<1>3. DecodeTypes'
  BY <1>1, <1>2 DEF DecodeInv, DecodeTypes
<1>4. OwnList'
  BY <1>1 DEF DecodeInv, OwnList, Requests, Nothing
<1>5. ASSUME NEW q \in Rows PROVE Request(q)'
  BY <1>1, OtherKept DEF DecodeInv
<1>6. QED
  BY <1>2, <1>3, <1>4, <1>5 DEF DecodeInv

LEMMA DecodeInitInv ==
  ASSUME Init
  PROVE  DecodeInv
<1>1. /\ denv \in DecodeEnvironments
      /\ given = [r \in Rows |-> [kv |-> <<>>, prompt |-> 0]]
      /\ table = [r \in Rows |-> Nothing] /\ ref = [r \in Rows |-> Nothing]
      /\ lists = <<>> /\ pc = [r \in Rows |-> "idle"] /\ local = [r \in Rows |-> 0]
      /\ dhidden = [r \in Rows |-> Embedding(0)]
      /\ pastLen = [r \in Rows |-> 0] /\ tokens = [r \in Rows |-> 0]
      /\ used = [r \in Rows |-> <<>>] /\ cancels = 0
  BY DEF Init, DecodeInit, Rows
<1>2. NumLayers \in Nat \ {0} /\ MaxCancels \in Nat
  BY NumLayersAssumption, MaxCancelsAssumption
<1>3. Embedding(0) \in Hiddens
  BY DEF Embedding, Hiddens
<1>4. DecodeTypes
  <2>1. [kv |-> <<>>, prompt |-> 0] \in [kv: Seq(Seq(Entries)), prompt: Nat]
    OBVIOUS
  <2>2. Nothing \in 0 .. Len(lists)
    BY <1>1 DEF Nothing
  <2>3. given \in [Rows -> [kv: Seq(Seq(Entries)), prompt: Nat]]
    BY <1>1, <2>1
  <2>4. QED
    BY <1>1, <1>2, <1>3, <2>2, <2>3 DEF DecodeTypes
<1>5. OwnList
  BY <1>1 DEF OwnList, Requests
<1>6. ASSUME NEW r \in Rows PROVE Request(r)
  <2>1. /\ pc[r] = "idle" /\ given[r].kv = <<>> /\ used[r] = <<>>
    BY <1>1
  <2>2. Place(r)
    BY <2>1 DEF Place
  <2>3. Steady(r)
    BY <2>1 DEF Steady
  <2>4. ~Sound(r)
    <3>1. 1 \in 1 .. NumLayers /\ ~(1 \in DOMAIN <<>>)
      BY <1>2
    <3>2. QED
      BY <2>1, <3>1 DEF Sound, Complete
  <2>5. Own(r)
    BY <1>1 DEF Own
  <2>6. QED
    BY <2>2, <2>3, <2>4, <2>5 DEF Request
<1>7. QED
  BY <1>4, <1>5, <1>6 DEF DecodeInv

StagesInv == PrefillInv /\ DecodeInv

LEMMA StagesInductive ==
  /\ Init => StagesInv
  /\ StagesInv /\ [Next]_vars => StagesInv'
<1>1. Init => StagesInv
  BY PrefillInitInv, DecodeInitInv DEF Init, StagesInv
<1>2. ASSUME StagesInv, [Next]_vars PROVE StagesInv'
  <2>1. PrefillInv /\ DecodeInv
    BY <1>2 DEF StagesInv
  <2>2. PrefillInv'
    BY <1>2, <2>1, PrefillKept
  <2>3. ASSUME Prefill PROVE DecodeInv'
    <3>1. penv' = penv
      BY <2>3 DEF Prefill, PrefillStep, Load, ForwardWhole, ForwardLayer, ForwardEnd
    <3>2. QED
      BY <2>1, <2>3, <3>1, DecodeStutter DEF Prefill, decode
  <2>4. ASSUME NEW r \in Requests, HandOver(r) PROVE DecodeInv'
    BY <2>1, <2>4, HandOverStep, RequestsAreRows DEF DecodeInv
  <2>5. ASSUME Decode PROVE DecodeInv'
    <3>1. PICK r \in Requests :
            GetList(r) \/ StoreFresh(r) \/ RunLayer(r) \/ Raise(r) \/ EndStep(r) \/ Finish(r) \/ Cancel(r)
      BY <2>5 DEF Decode, DecodeStep
    <3>2. r \in Rows /\ penv' = penv
      BY <2>1, <2>5, RequestsAreRows DEF Decode, DecodeInv, prefill
    <3>3. QED
      <4>1. CASE GetList(r)
        BY <2>1, <3>2, <4>1, GetListStep
      <4>2. CASE StoreFresh(r)
        BY <2>1, <3>2, <4>2, StoreFreshStep
      <4>3. CASE RunLayer(r)
        BY <2>1, <3>2, <4>3, RunLayerStep DEF PrefillInv, StageInv
      <4>4. CASE Raise(r)
        BY <2>1, <3>2, <4>4, RaiseStep
      <4>5. CASE EndStep(r)
        BY <2>1, <3>2, <4>5, EndStepStep
      <4>6. CASE Finish(r)
        BY <2>1, <3>2, <4>6, FinishStep
      <4>7. CASE Cancel(r)
        BY <2>1, <3>2, <4>7, CancelStep
      <4>8. QED
        BY <3>1, <4>1, <4>2, <4>3, <4>4, <4>5, <4>6, <4>7
  <2>6. ASSUME UNCHANGED vars PROVE DecodeInv'
    BY <2>1, <2>6, DecodeStutter DEF vars, prefill, decode
  <2>7. DecodeInv'
    BY <1>2, <2>3, <2>4, <2>5, <2>6 DEF Next
  <2>8. QED
    BY <2>2, <2>7 DEF StagesInv
<1>3. QED
  BY <1>1, <1>2
-----------------------------------------------------------------------------
(* What the runs check, for every instance. *)

LEMMA TypeFollows ==
  ASSUME StagesInv
  PROVE  TypeOK
<1>1. PrefillInv /\ DecodeInv /\ DecodeTypes /\ Requests = Rows
  BY RequestsAreRows DEF StagesInv, DecodeInv
<1>2. /\ penv \in PrefillEnvironments /\ NumLayers \in Nat \ {0}
      /\ penv.stages \in 1 .. NumLayers /\ stage \in 1 .. penv.stages + 1 /\ layer \in Nat
  BY <1>1, PenvFacts DEF PrefillInv, StageInv
<1>3. \A s \in 1 .. penv.stages :
        First(s) \in Nat /\ End(s) \in Nat /\ First(s) <= End(s) /\ End(s) <= NumLayers
  BY <1>2, StageRanges
<1>4. stage <= penv.stages => layer <= End(stage) - First(stage) /\ stage \in 1 .. penv.stages
  BY <1>1, <1>2 DEF PrefillInv, StageInv
<1>5. layer \in 0 .. NumLayers /\ Reached \in 0 .. NumLayers
  <2>1. CASE stage > penv.stages
    BY <1>1, <1>2, <2>1 DEF PrefillInv, StageInv, Reached
  <2>2. CASE ~(stage > penv.stages)
    <3>1. stage \in 1 .. penv.stages /\ layer <= End(stage) - First(stage)
      BY <1>2, <1>4, <2>2
    <3>2. QED
      BY <1>2, <1>3, <2>2, <3>1 DEF Reached
  <2>3. QED
    BY <2>1, <2>2
<1>6. ASSUME NEW i \in Rows, NEW p \in DOMAIN hidden[i]
      PROVE  hidden[i][p].saw \subseteq 1 .. Width(penv.lengths)
  <2>1. stage # 1
    <3>1. ASSUME stage = 1 PROVE hidden[i] = <<>>
      BY <1>1, <3>1 DEF PrefillInv, StageInv
    <3>2. QED
      BY <3>1
  <2> DEFINE h == HiddenStates(Mask(i))[Reached]
  <2>2. hidden[i] = h
    BY <1>1, <2>1 DEF PrefillInv, StageInv
  <2>3. h \in States(Width(penv.lengths)) /\ Sees(h, penv.lengths[i], Width(penv.lengths))
    BY <1>2, <1>5, WholeStates
  <2> HIDE DEF h
  <2>4. QED
    BY <2>2, <2>3 DEF States, Sees
<1>7. ASSUME NEW s \in DOMAIN parts PROVE Len(parts[s]) <= End(s) - First(s)
  <2>1. s \in 1 .. penv.stages
    BY <1>1 DEF PrefillInv, PartsInv
  <2>2. Len(parts[s]) = IF s < stage THEN End(s) - First(s) ELSE IF s = stage THEN layer ELSE 0
    BY <1>1, <2>1 DEF PrefillInv, PartsInv
  <2>3. s <= penv.stages /\ 0 <= End(s) - First(s) /\ End(s) - First(s) \in Int
    BY <1>2, <1>3, <2>1
  <2>4. s = stage => layer <= End(s) - First(s)
    BY <1>4, <2>3
  <2>5. QED
    BY <2>2, <2>3, <2>4
<1>8. /\ loaded \in [1 .. penv.stages -> {"no", "full", "partial", "raised"}]
      /\ norms \in {0, 1}
  BY <1>1 DEF PrefillInv, LoadInv, StageInv
<1>9. /\ \A r \in Requests : {table[r], ref[r]} \subseteq 0 .. Len(lists)
      /\ \A o \in DOMAIN lists : DOMAIN lists[o] = 1 .. NumLayers
  BY <1>1 DEF DecodeTypes, Lists
<1>10. QED
  BY <1>1, <1>2, <1>5, <1>6, <1>7, <1>8, <1>9 DEF TypeOK, DecodeTypes

LEMMA ContextFollows ==
  ASSUME DecodeInv
  PROVE  ContextInStep /\ OwnPromptGiven /\ NoCacheLeft
<1>1. DecodeTypes /\ OwnList /\ Requests = Rows /\ \A r \in Rows : Request(r)
  BY RequestsAreRows DEF DecodeInv
<1>2. ASSUME denv.returnsKV, cancels = 0, NEW r \in Requests, pc[r] = "layers",
             NEW l \in 1 .. NumLayers, l \in DOMAIN given[r].kv, given[r].kv[l] # NoKV
      PROVE  Len(lists[ref[r]][l]) = pastLen[r] + (IF l <= local[r] THEN 1 ELSE 0)
  <2>1. Steady(r)
    BY <1>1, <1>2 DEF Request
  <2>2. QED
    BY <1>2, <2>1 DEF Steady, Has, Ran
<1>3. PositionIsCacheLength
  BY <1>2 DEF PositionIsCacheLength, InStep
<1>4. WholeContext
  BY <1>1 DEF WholeContext, Request, Whole, Sound
<1>5. OwnTokens
  BY <1>1 DEF OwnTokens, Request, Place, Own, Mine
<1>6. OwnPromptGiven
  BY <1>1 DEF OwnPromptGiven, Request, Place
<1>7. NoCacheLeft
  BY <1>1 DEF NoCacheLeft, Request, Place
<1>8. QED
  BY <1>1, <1>3, <1>4, <1>5, <1>6, <1>7 DEF ContextInStep

\* The inductive invariant holds of the stages of every model: how the layers
\* are divided and run, and what every list of caches holds.
LEMMA StagesAlways == Spec => []StagesInv
BY StagesInductive, PTL DEF Spec

\* The state of both stages has its type: no hidden state depends on more
\* than the padded row, no stage caches more layers than its range, and every
\* list a request refers to exists and has all layers.
THEOREM StageTypes == Spec => []TypeOK
BY StagesAlways, TypeFollows, PTL

\* However many layers there are and however they are divided among stages,
\* the stages compute what PrefillStage with the whole model does: each cache
\* that is returned is the one of its layer, and the hidden states at the end
\* are the model's, run with weights that were all loaded.  How often these
\* have been normed is left aside, and with RoPE the layers after the first
\* stage are excepted, which are given no positions.
THEOREM StagesComputeTheModel == Spec => []StagesAreTheModel
<1>1. StagesInv => StagesAreTheModel
  BY StagesTogether DEF StagesInv
<1>2. QED
  BY <1>1, StagesAlways, PTL

\* What prepare_layer_attention_mask and split_kv_cache_by_length are for:
\* the cache of a prompt depends on no padding and no token behind, and what a
\* request is handed is the tokens of its own prompt and no others.
THEOREM PromptCachedAlone == Spec => []OwnPromptCached
<1>1. StagesInv => OwnPromptCached
  BY CausalPrompt, ContextFollows DEF StagesInv, OwnPromptCached
<1>2. QED
  BY <1>1, StagesAlways, PTL

\* However the threads of any number of requests interleave in decode_step,
\* no two share a list of caches, and a step attends to tokens of its own
\* request only.  While nobody calls clear_kv from outside and the layers
\* return their caches, each position is the length of the cache, and a
\* request that came with a complete one has each token chosen on its whole
\* conversation.
THEOREM DecodedInContext == Spec => []ContextInStep
<1>1. StagesInv => ContextInStep
  BY ContextFollows DEF StagesInv
<1>2. QED
  BY <1>1, StagesAlways, PTL

\* run_full_decode leaves no cache behind in the table, whatever clear_kv was
\* called in the middle of a step.
THEOREM NothingCached == Spec => []NoCacheLeft
<1>1. StagesInv => NoCacheLeft
  BY ContextFollows DEF StagesInv
<1>2. QED
  BY <1>1, StagesAlways, PTL
=============================================================================
