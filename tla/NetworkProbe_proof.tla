------------------------- MODULE NetworkProbe_proof -------------------------
(***************************************************************************)
(* The voting of NetworkStateMachine for any windows and votes that        *)
(* VotesAssumption allows, on its own and fed by the probe: fast drop,     *)
(* convergence, no recovery right after a drop; and the estimate of        *)
(* NetworkProbeClient for every link, window and decay.                    *)
(***************************************************************************)
EXTENDS MCNetworkProbe, InductionLemmas, FiniteSetTheorems

LEMMA WindowCard ==
  ASSUME NEW n \in Nat, NEW w \in Nat
  PROVE  IsFiniteSet(n - w + 1 .. n) /\ Cardinality(n - w + 1 .. n) = w
<1>1. n - w + 1 \in Int /\ n \in Int
  OBVIOUS
<1>2. /\ IsFiniteSet(n - w + 1 .. n)
      /\ Cardinality(n - w + 1 .. n) =
           IF n - w + 1 > n THEN 0 ELSE n - (n - w + 1) + 1
  BY <1>1, FS_Interval, Zenon
<1> QED
  BY <1>2

\* Voters are positions of the window, so they can be counted.
LEMMA VotersFinite ==
  ASSUME NEW h \in Seq(Classes), NEW class, NEW w \in Nat
  PROVE  /\ Voters(h, class, w) \subseteq Len(h) - w + 1 .. Len(h)
         /\ IsFiniteSet(Voters(h, class, w))
         /\ Votes(h, class, w) \in Nat
         /\ Votes(h, class, w) <= w
<1>1. Len(h) \in Nat
  OBVIOUS
<1>2. Voters(h, class, w) \subseteq Len(h) - w + 1 .. Len(h)
  BY <1>1 DEF Voters
<1>3. /\ IsFiniteSet(Len(h) - w + 1 .. Len(h))
      /\ Cardinality(Len(h) - w + 1 .. Len(h)) = w
  BY <1>1, WindowCard
<1>4. /\ IsFiniteSet(Voters(h, class, w))
      /\ Cardinality(Voters(h, class, w)) <= w
  BY <1>2, <1>3, FS_Subset
<1>5. Cardinality(Voters(h, class, w)) \in Nat
  BY <1>4, FS_CardinalityType
<1> QED
  BY <1>2, <1>4, <1>5 DEF Votes

\* A wider window never has fewer votes.
LEMMA WiderWindow ==
  ASSUME NEW h \in Seq(Classes), NEW class, NEW v \in Nat, NEW w \in Nat, v <= w
  PROVE  Votes(h, class, v) <= Votes(h, class, w)
<1>1. Voters(h, class, v) \subseteq Voters(h, class, w)
  <2>1. Len(h) \in Nat
    OBVIOUS
  <2> QED
    BY <2>1 DEF Voters
<1>2. IsFiniteSet(Voters(h, class, w))
  BY VotersFinite
<1> QED
  BY <1>1, <1>2, FS_Subset DEF Votes

\* Two classes share the samples of a window.
LEMMA VotesShared ==
  ASSUME NEW h \in Seq(Classes), NEW c, NEW d, c # d, NEW w \in Nat
  PROVE  Votes(h, c, w) + Votes(h, d, w) <= w
<1> DEFINE C == Voters(h, c, w)
           D == Voters(h, d, w)
<1>1. Len(h) \in Nat
  OBVIOUS
<1>2. /\ C \subseteq Len(h) - w + 1 .. Len(h) /\ IsFiniteSet(C)
      /\ D \subseteq Len(h) - w + 1 .. Len(h) /\ IsFiniteSet(D)
      /\ Votes(h, c, w) \in Nat /\ Votes(h, d, w) \in Nat
  BY VotersFinite
<1>3. C \cap D = {}
  BY DEF Voters
<1>4. Cardinality(C \cup D) = Votes(h, c, w) + Votes(h, d, w)
  <2>1. Cardinality(C \cup D) = Cardinality(C) + Cardinality(D) - Cardinality(C \cap D)
    BY <1>2, FS_Union
  <2>2. Cardinality(C \cap D) = 0
    BY <1>3, FS_EmptySet
  <2> QED
    BY <1>2, <2>1, <2>2 DEF Votes
<1>5. /\ IsFiniteSet(Len(h) - w + 1 .. Len(h))
      /\ Cardinality(Len(h) - w + 1 .. Len(h)) = w
  BY <1>1, WindowCard
<1>6. C \cup D \subseteq Len(h) - w + 1 .. Len(h)
  BY <1>2
<1>7. Cardinality(C \cup D) <= w
  <2> HIDE DEF C, D
  <2> QED
    BY <1>5, <1>6, FS_Subset
<1> QED
  BY <1>4, <1>7

\* The deque after a sample.
LEMMA RememberType ==
  ASSUME NEW h \in Seq(Classes), Len(h) <= UpgradeWindow, NEW raw \in Classes
  PROVE  /\ Remember(h, raw) \in Seq(Classes)
         /\ Len(Remember(h, raw)) \in 1 .. UpgradeWindow
         /\ Remember(h, raw)[Len(Remember(h, raw))] = raw
<1>1. CASE Len(h) < UpgradeWindow
  <2>1. Remember(h, raw) = Append(h, raw)
    BY <1>1 DEF Remember
  <2> QED
    BY <1>1, <2>1, VotesAssumption
<1>2. CASE ~ (Len(h) < UpgradeWindow)
  <2>1. Len(h) = UpgradeWindow /\ UpgradeWindow \in Nat /\ UpgradeWindow >= 1
    BY <1>2, VotesAssumption
  <2>2. h # <<>>
    BY <2>1
  <2>3. Remember(h, raw) = Append(Tail(h), raw)
    BY <1>2 DEF Remember
  <2>4. Tail(h) \in Seq(Classes) /\ Len(Tail(h)) = UpgradeWindow - 1
    BY <2>1, <2>2
  <2> QED
    BY <2>1, <2>3, <2>4
<1> QED
  BY <1>1, <1>2

\* A sample of another class never adds votes to a class.
LEMMA OthersLoseVotes ==
  ASSUME NEW h \in Seq(Classes), Len(h) <= UpgradeWindow, NEW raw \in Classes,
         NEW class, class # raw, NEW w \in Nat
  PROVE  Votes(Remember(h, raw), class, w) <= Votes(h, class, w)
<1> DEFINE new == Voters(Remember(h, raw), class, w)
           old == Voters(h, class, w)
<1>1. IsFiniteSet(old)
  BY VotersFinite
<1>2. CASE Len(h) < UpgradeWindow
  <2>1. Remember(h, raw) = Append(h, raw)
    BY <1>2 DEF Remember
  <2>2. new \subseteq old
    <3>1. Len(Append(h, raw)) = Len(h) + 1 /\ Len(h) \in Nat
      OBVIOUS
    <3>2. Append(h, raw)[Len(h) + 1] = raw
      OBVIOUS
    <3>3. \A i \in 1 .. Len(h) : Append(h, raw)[i] = h[i]
      OBVIOUS
    <3>4. ASSUME NEW i \in new
          PROVE  i \in old
      <4>1. /\ i \in 1 .. Len(h) + 1 /\ i > Len(h) + 1 - w
            /\ Append(h, raw)[i] = class
        BY <2>1, <3>1 DEF Voters
      <4>2. i # Len(h) + 1
        BY <4>1, <3>2
      <4>3. i \in 1 .. Len(h) /\ i > Len(h) - w
        BY <4>1, <4>2, <3>1
      <4>4. h[i] = class
        BY <4>1, <4>3, <3>3
      <4> QED
        BY <4>3, <4>4 DEF Voters
    <3> QED
      BY <3>4
  <2> QED
    BY <1>1, <2>2, FS_Subset DEF Votes
<1>3. CASE ~ (Len(h) < UpgradeWindow)
  <2>1. Len(h) \in Nat /\ Len(h) >= 1 /\ h # <<>>
    BY <1>3, VotesAssumption
  <2>2. Remember(h, raw) = Append(Tail(h), raw)
    BY <1>3 DEF Remember
  <2>3. /\ Tail(h) \in Seq(Classes)
        /\ Len(Append(Tail(h), raw)) = Len(h)
        /\ Append(Tail(h), raw)[Len(h)] = raw
        /\ \A i \in 1 .. Len(h) - 1 : Append(Tail(h), raw)[i] = h[i + 1]
    BY <2>1
  <2>4. \A i \in new : i \in Nat /\ i + 1 \in old
    <3>1. ASSUME NEW i \in new
          PROVE  i \in Nat /\ i + 1 \in old
      <4>1. /\ i \in 1 .. Len(h) /\ i > Len(h) - w
            /\ Append(Tail(h), raw)[i] = class
        BY <2>2, <2>3 DEF Voters
      <4>2. i # Len(h)
        BY <4>1, <2>3
      <4>3. i \in 1 .. Len(h) - 1 /\ i + 1 \in 1 .. Len(h) /\ i + 1 > Len(h) - w
        BY <4>1, <4>2, <2>1
      <4>4. h[i + 1] = class
        BY <4>1, <4>3, <2>3
      <4> QED
        BY <4>3, <4>4 DEF Voters
    <3> QED
      BY <3>1
  <2> DEFINE next == [i \in new |-> i + 1]
  <2>5. next \in Injection(new, old)
    <3> HIDE DEF new, old
    <3>1. next \in [new -> old]
      BY <2>4
    <3>2. \A i, j \in new : next[i] = next[j] => i = j
      BY <2>4
    <3> QED
      BY <3>1, <3>2 DEF Injection, IsInjective
  <2>6. Cardinality(new) <= Cardinality(old)
    <3> HIDE DEF new, old, next
    <3> QED
      BY <1>1, <2>5, FS_Injection
  <2> QED
    BY <2>6 DEF Votes
<1> QED
  BY <1>2, <1>3
-----------------------------------------------------------------------------
LEMMA ClassifyType == \A bw, ms : Classify(bw, ms) \in Classes
  BY DEF Classify, Classes

\* What every sample does, wherever its figures come from.
Voted == \E raw \in Classes : /\ history' = Remember(history, raw)
                              /\ state' = Resolve(history', raw)

LEMMA UpdateVotes == \A bw, ms : Update(bw, ms) => Voted
  BY ClassifyType DEF Update, Voted

LEMMA NextVotes == [Next]_vars => Voted \/ UNCHANGED vars
  BY UpdateVotes DEF Next

LEMMA TypeInit == Init => TypeOK
  BY VotesAssumption DEF Init, TypeOK

LEMMA TypeStep == TypeOK /\ (Voted \/ UNCHANGED vars) => TypeOK'
<1> SUFFICES ASSUME TypeOK, Voted \/ UNCHANGED vars
             PROVE  TypeOK'
  OBVIOUS
<1>1. CASE UNCHANGED vars
  BY <1>1 DEF TypeOK, vars
<1>2. ASSUME Voted
      PROVE  TypeOK'
  <2>1. PICK raw \in Classes : /\ history' = Remember(history, raw)
                               /\ state' = Resolve(history', raw)
    BY <1>2 DEF Voted
  <2>2. /\ history' \in Seq(Classes) /\ Len(history') \in 1 .. UpgradeWindow
        /\ history' # <<>>
    BY <2>1, RememberType DEF TypeOK
  <2>3. state' \in Classes
    BY <2>1 DEF Resolve, TypeOK
  <2>4. "UNKNOWN" \notin Classes
    BY DEF Classes
  <2>5. Len(history') <= UpgradeWindow
    BY <2>2, VotesAssumption
  <2> QED
    BY <2>2, <2>3, <2>4, <2>5 DEF TypeOK
<1> QED
  BY <1>1, <1>2

\* The state machine is well typed: the deque never outgrows its maxlen, and
\* UNKNOWN is left with the first sample, never to return.
THEOREM StateMachineType == Spec => []TypeOK
<1> QED
  BY TypeInit, TypeStep, NextVotes, PTL DEF Spec
-----------------------------------------------------------------------------
LEMMA RankType == \A c \in Classes : Rank(c) \in 0 .. 2
  BY DEF Classes, Rank

LEMMA RankInjective == \A c, d \in Classes : Rank(c) = Rank(d) => c = d
  BY DEF Classes, Rank

LEMMA OptimismInit == Init => NeverTooOptimistic
<1> SUFFICES ASSUME Init, NEW class \in Classes
             PROVE  ~ (Votes(history, class, DowngradeWindow) >= DowngradeVotes)
  BY DEF NeverTooOptimistic
<1>1. Voters(history, class, DowngradeWindow) = {}
  BY DEF Init, Voters
<1>2. Votes(history, class, DowngradeWindow) = 0
  BY <1>1, FS_EmptySet DEF Votes
<1> QED
  BY <1>2, VotesAssumption

LEMMA OptimismStep ==
  TypeOK /\ NeverTooOptimistic /\ (Voted \/ UNCHANGED vars) => NeverTooOptimistic'
<1> SUFFICES ASSUME TypeOK, NeverTooOptimistic, Voted \/ UNCHANGED vars
             PROVE  NeverTooOptimistic'
  OBVIOUS
<1>1. CASE UNCHANGED vars
  BY <1>1 DEF NeverTooOptimistic, vars
<1>2. ASSUME Voted,
             NEW class \in Classes,
             Votes(history', class, DowngradeWindow) >= DowngradeVotes
      PROVE  Rank(state') >= Rank(class)
  <2>1. PICK raw \in Classes : /\ history' = Remember(history, raw)
                               /\ state' = Resolve(history', raw)
    BY <1>2 DEF Voted
  <2>2. /\ history \in Seq(Classes) /\ Len(history) <= UpgradeWindow
        /\ history' \in Seq(Classes)
    BY <2>1, RememberType DEF TypeOK
  <2>3. /\ DowngradeWindow \in Nat /\ UpgradeWindow \in Nat
        /\ DowngradeVotes \in Nat /\ UpgradeVotes \in Nat
        /\ DowngradeWindow <= UpgradeWindow
        /\ DowngradeVotes + UpgradeVotes > UpgradeWindow
    BY VotesAssumption
  <2>4. state' = state \/ state' = raw
    BY <2>1 DEF Resolve
  <2>5. CASE state = "UNKNOWN"
    <3>1. state' = raw
      BY <2>1, <2>5 DEF Resolve
    <3>2. history = <<>>
      BY <2>5 DEF TypeOK
    <3>3. CASE class # raw
      <4>1. Votes(history', class, DowngradeWindow)
              <= Votes(history, class, DowngradeWindow)
        BY <2>1, <2>2, <2>3, <3>3, OthersLoseVotes
      <4>2. Votes(history, class, DowngradeWindow) = 0
        <5>1. Voters(history, class, DowngradeWindow) = {}
          BY <3>2 DEF Voters
        <5> QED
          BY <5>1, FS_EmptySet DEF Votes
      <4>3. Votes(history', class, DowngradeWindow) \in Nat
        BY <2>2, <2>3, VotersFinite
      <4> QED
        BY <1>2, <4>1, <4>2, <4>3, VotesAssumption
    <3> QED
      BY <3>1, <3>3, RankType
  <2>6. CASE state \in Classes /\ class = raw
    <3>1. CASE Rank(raw) > Rank(state)
      BY <1>2, <2>1, <2>6, <3>1, RankType DEF Resolve
    <3>2. CASE ~ (Rank(raw) > Rank(state))
      BY <2>4, <2>6, <3>2, RankType
    <3> QED
      BY <3>1, <3>2
  <2>7. CASE state \in Classes /\ class # raw
    <3>1. Votes(history, class, DowngradeWindow) >= DowngradeVotes
      <4>1. Votes(history', class, DowngradeWindow)
              <= Votes(history, class, DowngradeWindow)
        BY <2>1, <2>2, <2>3, <2>7, OthersLoseVotes
      <4>2. /\ Votes(history', class, DowngradeWindow) \in Nat
            /\ Votes(history, class, DowngradeWindow) \in Nat
        BY <2>2, <2>3, VotersFinite
      <4> QED
        BY <1>2, <2>3, <4>1, <4>2
    <3>2. Rank(state) >= Rank(class)
      BY <3>1 DEF NeverTooOptimistic
    <3>3. Votes(history', raw, UpgradeWindow) < UpgradeVotes
      <4>1. Votes(history', raw, UpgradeWindow) + Votes(history', class, UpgradeWindow)
              <= UpgradeWindow
        BY <2>2, <2>3, <2>7, VotesShared
      <4>2. Votes(history', class, DowngradeWindow)
              <= Votes(history', class, UpgradeWindow)
        BY <2>2, <2>3, WiderWindow
      <4>3. /\ Votes(history', class, DowngradeWindow) \in Nat
            /\ Votes(history', class, UpgradeWindow) \in Nat
            /\ Votes(history', raw, UpgradeWindow) \in Nat
        BY <2>2, <2>3, VotersFinite
      <4> QED
        BY <1>2, <2>3, <4>1, <4>2, <4>3
    <3>4. CASE state' = state
      BY <3>2, <3>4
    <3>5. CASE state' # state
      <4>1. Rank(raw) > Rank(state)
        <5>1. ~ (Votes(history', raw, UpgradeWindow) >= UpgradeVotes)
          <6>1. Votes(history', raw, UpgradeWindow) \in Nat
            BY <2>2, <2>3, VotersFinite
          <6> QED
            BY <2>3, <3>3, <6>1
        <5>2. state # "UNKNOWN"
          BY <2>7 DEF Classes
        <5> QED
          BY <2>1, <3>5, <5>1, <5>2 DEF Resolve
      <4> QED
        BY <2>4, <2>7, <3>2, <3>5, <4>1, RankType
    <3> QED
      BY <3>4, <3>5
  <2> QED
    BY <2>5, <2>6, <2>7 DEF TypeOK
<1> QED
  BY <1>1, <1>2 DEF NeverTooOptimistic

\* The state never recovers while the votes that would drop it are still in
\* their window, for all windows and votes that overlap.
THEOREM FastDrop == Spec => []NeverTooOptimistic
<1> QED
  BY TypeInit, TypeStep, NextVotes, OptimismInit, OptimismStep, PTL DEF Spec
-----------------------------------------------------------------------------
\* A window full of one class: every sample of it is of that class, and so
\* are the samples of every narrower window.
LEMMA FullWindow ==
  ASSUME NEW h \in Seq(Classes), NEW class, NEW w \in Nat \ {0},
         Votes(h, class, w) >= w
  PROVE  /\ Len(h) >= w
         /\ h[Len(h)] = class
         /\ \A v \in 0 .. w : Votes(h, class, v) = v
<1> DEFINE positions == Len(h) - w + 1 .. Len(h)
<1>1. Len(h) \in Nat /\ w \in Nat
  OBVIOUS
<1>2. /\ Voters(h, class, w) \subseteq positions
      /\ Votes(h, class, w) \in Nat /\ Votes(h, class, w) <= w
  BY <1>1, VotersFinite
<1>3. IsFiniteSet(positions) /\ Cardinality(positions) = w
  BY <1>1, WindowCard
<1>4. Cardinality(Voters(h, class, w)) = Cardinality(positions)
  <2>1. Votes(h, class, w) = w
    BY <1>1, <1>2
  <2> QED
    BY <2>1, <1>3 DEF Votes
<1>5. Voters(h, class, w) = positions
  <2> HIDE DEF positions
  <2> QED
    BY <1>2, <1>3, <1>4, FS_Subset
<1>6. Len(h) - w + 1 \in positions /\ Len(h) \in positions
  BY <1>1
<1>7. Len(h) >= w /\ h[Len(h)] = class
  <2>1. Len(h) - w + 1 \in Voters(h, class, w) /\ Len(h) \in Voters(h, class, w)
    BY <1>5, <1>6
  <2>2. Len(h) - w + 1 \in 1 .. Len(h) /\ h[Len(h)] = class
    BY <2>1 DEF Voters
  <2> QED
    BY <1>1, <2>2
<1>8. ASSUME NEW v \in 0 .. w
      PROVE  Votes(h, class, v) = v
  <2>1. Len(h) - v + 1 .. Len(h) \subseteq positions
    BY <1>1
  <2>2. Voters(h, class, v) \subseteq Len(h) - v + 1 .. Len(h)
    BY <1>1 DEF Voters
  <2>3. ASSUME NEW i \in Len(h) - v + 1 .. Len(h)
        PROVE  i \in Voters(h, class, v)
    <3>1. i \in Voters(h, class, w)
      BY <2>1, <1>5
    <3>2. i \in 1 .. Len(h) /\ h[i] = class
      BY <3>1 DEF Voters
    <3>3. i > Len(h) - v
      BY <1>1
    <3> QED
      BY <3>2, <3>3 DEF Voters
  <2>4. Voters(h, class, v) = Len(h) - v + 1 .. Len(h)
    BY <2>2, <2>3
  <2>5. v \in Nat
    BY <1>1
  <2> QED
    BY <1>1, <2>4, <2>5, WindowCard DEF Votes
<1> QED
  BY <1>7, <1>8

LEMMA ConvergenceInit == Init => ConvergesOnSteady
<1> SUFFICES ASSUME Init, NEW class \in Classes
             PROVE  ~ (Votes(history, class, UpgradeVotes) >= UpgradeVotes)
  BY DEF ConvergesOnSteady
<1>1. Voters(history, class, UpgradeVotes) = {}
  BY DEF Init, Voters
<1>2. Votes(history, class, UpgradeVotes) = 0
  BY <1>1, FS_EmptySet DEF Votes
<1> QED
  BY <1>2, VotesAssumption

LEMMA ConvergenceStep ==
  TypeOK /\ ConvergesOnSteady /\ (Voted \/ UNCHANGED vars) => ConvergesOnSteady'
<1> SUFFICES ASSUME TypeOK, ConvergesOnSteady, Voted \/ UNCHANGED vars
             PROVE  ConvergesOnSteady'
  OBVIOUS
<1>1. CASE UNCHANGED vars
  BY <1>1 DEF ConvergesOnSteady, vars
<1>2. ASSUME Voted,
             NEW class \in Classes,
             Votes(history', class, UpgradeVotes) >= UpgradeVotes
      PROVE  state' = class
  <2>1. PICK raw \in Classes : /\ history' = Remember(history, raw)
                               /\ state' = Resolve(history', raw)
    BY <1>2 DEF Voted
  <2>2. /\ history' \in Seq(Classes)
        /\ history'[Len(history')] = raw
    BY <2>1, RememberType DEF TypeOK
  <2>3. /\ UpgradeVotes \in Nat \ {0} /\ UpgradeVotes <= UpgradeWindow
        /\ UpgradeWindow \in Nat /\ DowngradeWindow \in Nat
        /\ DowngradeVotes \in Nat
        /\ DowngradeVotes <= DowngradeWindow /\ DowngradeVotes <= UpgradeVotes
    BY VotesAssumption
  <2>4. /\ class = raw
        /\ \A v \in 0 .. UpgradeVotes : Votes(history', class, v) = v
    BY <1>2, <2>2, <2>3, FullWindow
  <2>5. Votes(history', raw, UpgradeWindow) >= UpgradeVotes
    <3>1. Votes(history', raw, UpgradeVotes) <= Votes(history', raw, UpgradeWindow)
      BY <2>2, <2>3, WiderWindow
    <3>2. /\ Votes(history', raw, UpgradeVotes) \in Nat
          /\ Votes(history', raw, UpgradeWindow) \in Nat
      BY <2>2, <2>3, VotersFinite
    <3> QED
      BY <1>2, <2>3, <2>4, <3>1, <3>2
  <2>6. Votes(history', raw, DowngradeWindow) >= DowngradeVotes
    <3>1. CASE DowngradeWindow <= UpgradeVotes
      BY <2>3, <2>4, <3>1
    <3>2. CASE ~ (DowngradeWindow <= UpgradeVotes)
      <4>1. Votes(history', raw, UpgradeVotes) <= Votes(history', raw, DowngradeWindow)
        BY <2>2, <2>3, <3>2, WiderWindow
      <4>2. /\ Votes(history', raw, UpgradeVotes) \in Nat
            /\ Votes(history', raw, DowngradeWindow) \in Nat
        BY <2>2, <2>3, VotersFinite
      <4> QED
        BY <1>2, <2>3, <2>4, <4>1, <4>2
    <3> QED
      BY <3>1, <3>2
  <2>7. CASE state = "UNKNOWN"
    BY <2>1, <2>4, <2>7 DEF Resolve
  <2>8. CASE state \in Classes
    <3>1. CASE Rank(raw) = Rank(state)
      <4>1. raw = state
        BY <2>8, <3>1, RankInjective
      <4> QED
        BY <2>1, <2>4, <4>1 DEF Resolve
    <3>2. CASE Rank(raw) # Rank(state)
      <4>1. Rank(raw) > Rank(state) \/ Rank(raw) < Rank(state)
        BY <2>8, <3>2, RankType
      <4> QED
        BY <2>1, <2>4, <2>5, <2>6, <4>1 DEF Resolve
    <3> QED
      BY <3>1, <3>2
  <2> QED
    BY <2>7, <2>8 DEF TypeOK
<1> QED
  BY <1>1, <1>2 DEF ConvergesOnSteady

\* UpgradeVotes equal samples in a row decide the state, wherever it was.
THEOREM Convergence == Spec => []ConvergesOnSteady
<1> QED
  BY TypeInit, TypeStep, NextVotes, ConvergenceInit, ConvergenceStep, PTL DEF Spec
-----------------------------------------------------------------------------
(* The voting inside the probe client: every step is a sample or leaves the *)
(* state machine alone.                                                     *)
LEMMA SamplingVotes == Sampling => Voted
<1>1. ASSUME NEW t, NEW other, TakeSample(t, other)
      PROVE  Voted
  BY <1>1, UpdateVotes, Zenon DEF TakeSample
<1>2. Echo => Voted
  BY UpdateVotes, Zenon DEF Echo
<1> QED
  BY <1>1, <1>2 DEF Sampling, LoopSample, ForcedSample

LEMMA QuietVotes == Quiet => UNCHANGED vars
  BY DEF Quiet, LoopProbe, LoopProbeFails, EchoFails, ServerCloses, ForceProbe, ForcedFails,
         StartTransfer, EndTransfer, Record, LinkChanges, TimePasses, vars

LEMMA ProbeVotes == [MCNext]_allVars => Voted \/ UNCHANGED vars
  BY SamplingVotes, QuietVotes DEF MCNext, allVars, probeVars, vars

\* A machine that is voted on by every sample of the probe client, too.
LEMMA ProbeTypeVotes == MCInit /\ [][MCNext]_allVars => []TypeOK
<1>1. MCInit => TypeOK
  BY TypeInit DEF MCInit, ProbeInit
<1>2. TypeOK /\ [MCNext]_allVars => TypeOK'
  BY ProbeVotes, TypeStep
<1> QED
  BY <1>1, <1>2, PTL

\* Whatever the link, the failures and the threads do: a state better than
\* the votes of the latest samples allow is never fed to the allocator.
THEOREM ProbeFastDrop == MCSpec => []NeverTooOptimistic
<1>1. MCInit => TypeOK /\ NeverTooOptimistic
  BY TypeInit, OptimismInit DEF MCInit, ProbeInit
<1>2. TypeOK /\ NeverTooOptimistic /\ [MCNext]_allVars => NeverTooOptimistic'
  BY ProbeVotes, OptimismStep
<1> QED
  BY <1>1, <1>2, ProbeTypeVotes, PTL DEF MCSpec

\* Equal samples in a row decide the state of the probe client.
THEOREM ProbeConvergence == MCSpec => []ConvergesOnSteady
<1>1. MCInit => TypeOK /\ ConvergesOnSteady
  BY TypeInit, ConvergenceInit DEF MCInit, ProbeInit
<1>2. TypeOK /\ ConvergesOnSteady /\ [MCNext]_allVars => ConvergesOnSteady'
  BY ProbeVotes, ConvergenceStep
<1> QED
  BY <1>1, <1>2, ProbeTypeVotes, PTL DEF MCSpec
-----------------------------------------------------------------------------
(* No recovery right after a drop: as long as less than the difference of   *)
(* the windows was seen since, the samples that caused the drop are still   *)
(* in the larger window, and leave too few votes for a rise.                *)
RecoveryInv ==
  /\ sinceDrop \in 0 .. Horizon
  /\ sinceDrop < UpgradeWindow - DowngradeWindow =>
       /\ state # "UNKNOWN"
       /\ Votes(history, state, DowngradeWindow + sinceDrop) >= DowngradeVotes

\* A window that grows with every sample keeps its votes.
LEMMA GrowingWindow ==
  ASSUME NEW h \in Seq(Classes), Len(h) <= UpgradeWindow, NEW raw \in Classes,
         NEW class, NEW w \in Nat, w < UpgradeWindow
  PROVE  Votes(h, class, w) <= Votes(Remember(h, raw), class, w + 1)
<1> DEFINE old == Voters(h, class, w)
           new == Voters(Remember(h, raw), class, w + 1)
<1>1. IsFiniteSet(new) /\ UpgradeWindow \in Nat /\ Len(h) \in Nat
  <2>1. Remember(h, raw) \in Seq(Classes) /\ w + 1 \in Nat
    BY RememberType
  <2>2. IsFiniteSet(new)
    BY <2>1, VotersFinite
  <2> QED
    BY <2>2, VotesAssumption
<1>2. CASE Len(h) < UpgradeWindow
  <2>1. /\ Remember(h, raw) = Append(h, raw)
        /\ Len(Append(h, raw)) = Len(h) + 1
        /\ \A i \in 1 .. Len(h) : Append(h, raw)[i] = h[i]
    BY <1>2 DEF Remember
  <2>2. old \subseteq new
    BY <1>1, <2>1 DEF Voters
  <2> QED
    BY <1>1, <2>2, FS_Subset DEF Votes
<1>3. CASE ~ (Len(h) < UpgradeWindow)
  <2>1. Len(h) = UpgradeWindow /\ UpgradeWindow >= 1 /\ h # <<>>
    BY <1>3, VotesAssumption
  <2>2. /\ Remember(h, raw) = Append(Tail(h), raw)
        /\ Len(Append(Tail(h), raw)) = Len(h)
        /\ \A i \in 2 .. Len(h) : Append(Tail(h), raw)[i - 1] = h[i]
    BY <1>3, <2>1 DEF Remember
  <2>3. ASSUME NEW i \in old
        PROVE  i \in Nat /\ i - 1 \in new
    <3>1. i \in 1 .. Len(h) /\ i > Len(h) - w /\ h[i] = class
      BY DEF Voters
    <3>2. i \in 2 .. Len(h) /\ i - 1 \in 1 .. Len(h) /\ i - 1 > Len(h) - (w + 1)
      BY <2>1, <3>1, <1>1
    <3> QED
      BY <2>2, <3>1, <3>2 DEF Voters
  <2> DEFINE previous == [i \in old |-> i - 1]
  <2>4. previous \in Injection(old, new)
    <3> HIDE DEF new, old
    <3>1. previous \in [old -> new]
      BY <2>3
    <3>2. \A i, j \in old : previous[i] = previous[j] => i = j
      BY <2>3
    <3> QED
      BY <3>1, <3>2 DEF Injection, IsInjective
  <2>5. Cardinality(old) <= Cardinality(new)
    <3> HIDE DEF new, old, previous
    <3> QED
      BY <1>1, <2>4, FS_Injection
  <2> QED
    BY <2>5 DEF Votes
<1> QED
  BY <1>2, <1>3

\* What a sample does shortly after a drop: the votes stay, so the state does
\* not rise.
LEMMA NoVotesToRise ==
  ASSUME TypeOK, RecoveryInv, Voted, sinceDrop < UpgradeWindow - DowngradeWindow
  PROVE  /\ Votes(history', state, DowngradeWindow + sinceDrop + 1) >= DowngradeVotes
         /\ ~ (Rank(state') < Rank(state))
         /\ state' # state => /\ Rank(state') > Rank(state) /\ state' \in Classes
                             /\ Votes(history', state', DowngradeWindow) >= DowngradeVotes
<1> DEFINE w == DowngradeWindow + sinceDrop
<1>1. PICK raw \in Classes : history' = Remember(history, raw) /\ state' = Resolve(history', raw)
  BY DEF Voted
<1>2. /\ history \in Seq(Classes) /\ Len(history) <= UpgradeWindow
      /\ history' \in Seq(Classes) /\ state \in Classes
  BY <1>1, RememberType DEF TypeOK, RecoveryInv
<1>3. /\ DowngradeWindow \in Nat /\ UpgradeWindow \in Nat /\ DowngradeVotes \in Nat /\ UpgradeVotes \in Nat
      /\ DowngradeVotes + UpgradeVotes > UpgradeWindow /\ Horizon \in Nat
      /\ sinceDrop \in Nat /\ w \in Nat /\ w + 1 \in Nat /\ w < UpgradeWindow
  BY VotesAssumption, HorizonAssumption DEF RecoveryInv
<1> HIDE DEF w
<1>4. \A class : \A v \in Nat : Votes(history, class, v) \in Nat /\ Votes(history', class, v) \in Nat
  BY <1>2, VotersFinite
<1>5. Votes(history', state, w + 1) >= DowngradeVotes
  <2>1. Votes(history, state, w) <= Votes(history', state, w + 1)
    BY <1>1, <1>2, <1>3, GrowingWindow
  <2>2. Votes(history, state, w) >= DowngradeVotes
    BY DEF RecoveryInv, w
  <2> QED
    BY <1>3, <1>4, <2>1, <2>2
<1>6. ASSUME raw # state
      PROVE  Votes(history', raw, UpgradeWindow) < UpgradeVotes
  <2>1. Votes(history', state, w + 1) <= Votes(history', state, UpgradeWindow)
    BY <1>2, <1>3, WiderWindow
  <2>2. Votes(history', raw, UpgradeWindow) + Votes(history', state, UpgradeWindow) <= UpgradeWindow
    BY <1>2, <1>3, <1>6, VotesShared
  <2> QED
    BY <1>3, <1>4, <1>5, <2>1, <2>2
<1>7. ASSUME state' # state
      PROVE  /\ Rank(raw) > Rank(state) /\ state' = raw
             /\ Votes(history', raw, DowngradeWindow) >= DowngradeVotes
  <2>1. state' = raw /\ raw # state
    BY <1>1, <1>7 DEF Resolve
  <2>2. ~ (Votes(history', raw, UpgradeWindow) >= UpgradeVotes)
    BY <1>3, <1>4, <1>6, <2>1
  <2>3. state # "UNKNOWN"
    BY <1>2 DEF Classes
  <2> QED
    BY <1>1, <1>7, <2>1, <2>2, <2>3 DEF Resolve
<1>8. DowngradeWindow + sinceDrop + 1 = w + 1
  BY DEF w
<1>9. ~ (Rank(state') < Rank(state))
  BY <1>2, <1>7, RankType
<1> QED
  BY <1>5, <1>7, <1>8, <1>9

LEMMA RecoveryInit == MCInit => RecoveryInv
  BY HorizonAssumption, VotesAssumption DEF MCInit, RecoveryInv

LEMMA RecoveryStep == TypeOK /\ RecoveryInv /\ [MCNext]_allVars => RecoveryInv'
<1> SUFFICES ASSUME TypeOK, RecoveryInv, [MCNext]_allVars
             PROVE  RecoveryInv'
  OBVIOUS
<1>1. CASE UNCHANGED allVars
  BY <1>1 DEF allVars, probeVars, RecoveryInv
<1>2. CASE Quiet /\ UNCHANGED sinceDrop
  BY <1>2, QuietVotes DEF vars, RecoveryInv
<1>3. CASE Sampling /\ Observe
  <2>1. Voted
    BY <1>3, SamplingVotes
  <2>2. /\ DowngradeWindow \in Nat /\ UpgradeWindow \in Nat /\ Horizon \in Nat
        /\ Horizon >= UpgradeWindow - DowngradeWindow /\ sinceDrop \in 0 .. Horizon
    BY VotesAssumption, HorizonAssumption DEF RecoveryInv
  <2>3. sinceDrop' = IF Drops THEN 0 ELSE IF sinceDrop < Horizon THEN sinceDrop + 1 ELSE Horizon
    BY <1>3 DEF Observe
  <2>4. sinceDrop' \in 0 .. Horizon
    BY <2>2, <2>3
  <2>5. ASSUME sinceDrop' < UpgradeWindow - DowngradeWindow
        PROVE  /\ state' # "UNKNOWN"
               /\ Votes(history', state', DowngradeWindow + sinceDrop') >= DowngradeVotes
    <3>1. PICK raw \in Classes : history' = Remember(history, raw) /\ state' = Resolve(history', raw)
      BY <2>1 DEF Voted
    <3>2. "UNKNOWN" \notin Classes
      BY DEF Classes
    <3>3. state' # "UNKNOWN"
      BY <3>1, <3>2 DEF Resolve, TypeOK
    <3>4. CASE Drops
      <4>1. sinceDrop' = 0 /\ DowngradeWindow + sinceDrop' = DowngradeWindow
        BY <2>2, <2>3, <3>4
      <4>2. state \in Classes /\ Rank(state') > Rank(state)
        BY <3>4 DEF Drops, Known, TypeOK
      <4>3. state' = raw /\ Rank(raw) > Rank(state)
        BY <3>1, <4>2, RankType DEF Resolve
      <4>4. Votes(history', raw, DowngradeWindow) >= DowngradeVotes
        BY <3>1, <3>2, <4>2, <4>3, RankType DEF Resolve
      <4> QED
        BY <3>3, <4>1, <4>3, <4>4
    <3>5. CASE ~ Drops
      <4>1. sinceDrop' = sinceDrop + 1 /\ sinceDrop < UpgradeWindow - DowngradeWindow
        BY <2>2, <2>3, <2>5, <3>5
      <4>2. state' = state
        BY <2>1, <3>5, <4>1, NoVotesToRise DEF Drops, Known, RecoveryInv
      <4>3. DowngradeWindow + sinceDrop' = DowngradeWindow + sinceDrop + 1
        BY <2>2, <4>1
      <4> QED
        BY <2>1, <3>3, <4>1, <4>2, <4>3, NoVotesToRise
    <3> QED
      BY <3>4, <3>5
  <2> QED
    BY <2>4, <2>5 DEF RecoveryInv
<1> QED
  BY <1>1, <1>2, <1>3 DEF MCNext

\* No flapping upwards, for all windows, votes and environments: the next
\* UpgradeWindow - DowngradeWindow samples after a drop do not raise the state.
THEOREM SlowRise == MCSpec => NoInstantRecovery
<1>1. TypeOK /\ RecoveryInv /\ [MCNext]_allVars
        => [Rises => sinceDrop >= UpgradeWindow - DowngradeWindow]_allVars
  <2> SUFFICES ASSUME TypeOK, RecoveryInv, [MCNext]_allVars, Rises,
                      ~ (sinceDrop >= UpgradeWindow - DowngradeWindow)
               PROVE  FALSE
    OBVIOUS
  <2>1. sinceDrop < UpgradeWindow - DowngradeWindow
    BY VotesAssumption, HorizonAssumption DEF RecoveryInv
  <2>2. Rank(state') < Rank(state) /\ state \in Classes
    BY DEF Rises, Known, TypeOK
  <2>3. state' # state
    BY <2>2, RankType
  <2>4. Voted
    BY <2>3, ProbeVotes DEF vars
  <2> QED
    BY <2>1, <2>2, <2>4, NoVotesToRise
<1> QED
  BY <1>1, RecoveryInit, RecoveryStep, ProbeTypeVotes, PTL DEF MCSpec, NoInstantRecovery
-----------------------------------------------------------------------------
(* The estimate.  A measurement is positive from when it begins to when it  *)
(* is recorded, and a sample that is marked with a link was not faster.     *)
Sample == [bw: Nat, on: Bandwidths \cup {NoLink}]

BeganOK ==
  /\ began \in [{"loop", "main"} -> Nat]
  /\ mpc \in {"fp16", "abkt", "record"} => began["main"] >= 2

SamplesOK == \A i \in DOMAIN window : window[i].on # NoLink => window[i].bw <= window[i].on

ProbeInv == ProbeTypeOK /\ BeganOK /\ SamplesOK

LEMMA ConstantTypes ==
  /\ FullConfidence \in Nat \ {0} /\ DecaySteps \in Nat \ {0} /\ ProbeRatio \in Nat \ {0}
  /\ ConfidenceTransfers \in Nat \ {0} /\ DecayStart \in Nat /\ WindowSize \in Nat \ {0}
  /\ NoLink = 0 /\ ColdBw \in Nat /\ Cycle \in Nat \ {0}
  BY ProbeAssumption DEF FullConfidence

\* The link of an environment is one of the bandwidths, and not too slow.
LEMMA LinkType ==
  ASSUME NEW e \in ProbeEnvironments
  PROVE  /\ \A l \in e.links : l \in Bandwidths /\ l \in Nat /\ l >= 4
         /\ e.rtts \subseteq Nat
         /\ e.ratios \subseteq {<<2, 1>>, <<1, 1>>, <<1, 2>>}
<1>1. e \in ProbeEnvironmentType
  BY ProbeAssumption
<1>2. e.links \subseteq Bandwidths /\ e.ratios \subseteq {<<2, 1>>, <<1, 1>>, <<1, 2>>}
  BY <1>1 DEF ProbeEnvironmentType
<1>3. (\A l \in e.links : l >= 4) /\ e.rtts \subseteq Nat
  BY SpeedsAssumption
<1>4. \A l \in e.links : l \in Int
  BY <1>2, SamplesAssumption
<1> QED
  BY <1>2, <1>3, <1>4

\* The deque after a sample: what it holds is the sample or was there before.
LEMMA SampledType ==
  ASSUME window \in Seq(Sample), Len(window) <= WindowSize,
         NEW bw \in Nat, NEW on \in Bandwidths \cup {NoLink}
  PROVE  /\ Sampled(bw, on) \in Seq(Sample)
         /\ Len(Sampled(bw, on)) \in 1 .. WindowSize
         /\ \A i \in DOMAIN Sampled(bw, on) :
              \/ Sampled(bw, on)[i] = [bw |-> bw, on |-> on]
              \/ \E j \in DOMAIN window : Sampled(bw, on)[i] = window[j]
<1> DEFINE x == [bw |-> bw, on |-> on]
           w == Append(window, x)
<1>1. x \in Sample
  BY DEF Sample
<1> HIDE DEF x
<1>2. /\ w \in Seq(Sample) /\ Len(w) = Len(window) + 1 /\ w[Len(w)] = x /\ Len(window) \in Nat
      /\ \A i \in 1 .. Len(window) : w[i] = window[i]
  BY <1>1
<1> HIDE DEF w
<1>3. Sampled(bw, on) = IF Len(w) > WindowSize THEN Tail(w) ELSE w
  BY DEF Sampled, w, x
<1>4. CASE Len(w) > WindowSize
  <2>1. /\ Tail(w) \in Seq(Sample) /\ Len(Tail(w)) = Len(w) - 1
        /\ \A i \in 1 .. Len(w) - 1 : Tail(w)[i] = w[i + 1]
    BY <1>2, <1>4, ConstantTypes
  <2>2. Len(w) - 1 = WindowSize
    BY <1>2, <1>4, ConstantTypes
  <2>3. ASSUME NEW i \in 1 .. Len(w) - 1
        PROVE  w[i + 1] = x \/ \E j \in 1 .. Len(window) : w[i + 1] = window[j]
    <3>1. i + 1 = Len(w) \/ i + 1 \in 1 .. Len(window)
      BY <1>2
    <3> QED
      BY <1>2, <3>1
  <2>4. DOMAIN window = 1 .. Len(window) /\ DOMAIN Tail(w) = 1 .. Len(w) - 1
    BY <2>1
  <2>5. Sampled(bw, on) = Tail(w)
    BY <1>3, <1>4
  <2>6. ASSUME NEW i \in DOMAIN Tail(w)
        PROVE  Tail(w)[i] = x \/ \E j \in DOMAIN window : Tail(w)[i] = window[j]
    BY <2>1, <2>3, <2>4
  <2>7. Len(Tail(w)) \in 1 .. WindowSize
    BY <2>1, <2>2, ConstantTypes
  <2> QED
    BY <2>1, <2>5, <2>6, <2>7 DEF x
<1>5. CASE ~ (Len(w) > WindowSize)
  <2>1. ASSUME NEW i \in 1 .. Len(w)
        PROVE  w[i] = x \/ \E j \in 1 .. Len(window) : w[i] = window[j]
    <3>1. i = Len(w) \/ i \in 1 .. Len(window)
      BY <1>2
    <3> QED
      BY <1>2, <3>1
  <2>2. DOMAIN window = 1 .. Len(window) /\ DOMAIN w = 1 .. Len(w)
    BY <1>2
  <2> QED
    BY <1>2, <1>3, <1>5, <2>1, <2>2, ConstantTypes DEF x
<1> QED
  BY <1>4, <1>5

\* Smoothing keeps a number a number, and clamping keeps it positive.
LEMMA SmoothedType ==
  ASSUME NEW old \in Nat, NEW x \in Nat
  PROVE  Smoothed(old, x) \in Nat
  BY DEF Smoothed

LEMMA ClampedType ==
  ASSUME NEW old \in Nat, NEW x \in Nat \ {0}
  PROVE  Clamped(old, x) \in Nat \ {0}
<1>1. CASE old = NoLink
  BY <1>1 DEF Clamped
<1>2. CASE old # NoLink
  <2> DEFINE a == (old + x) \div 2
             b == (4 * old + 4) \div 5
             c == (6 * old) \div 5
  <2>1. a \in Nat /\ b \in Nat \ {0} /\ c \in Nat \ {0}
    BY <1>2, ConstantTypes
  <2>2. Clamped(old, x) = Min({Max({a, b}), c})
    BY <1>2 DEF Clamped
  <2> HIDE DEF a, b, c
  <2>3. Max({a, b}) \in Nat \ {0}
    BY <2>1, MaxOfTwo
  <2> QED
    BY <2>1, <2>2, <2>3, MinOfTwo
<1> QED
  BY <1>1, <1>2

LEMMA ShareType ==
  ASSUME link \in Nat, link >= 4, NEW other
  PROVE  Share(other) \in Nat /\ Share(other) >= 2 /\ Share(other) <= link
  BY DEF Share

\* The part of ProbeInv that is about the window.
WindowInv ==
  /\ window \in Seq(Sample) /\ Len(window) <= WindowSize
  /\ SamplesOK

\* A bandwidth sample, of whichever thread.
LEMMA TakeSampleKeeps ==
  ASSUME ProbeInv, NEW t \in {"loop", "main"}, NEW other, TakeSample(t, other), UNCHANGED link
  PROVE  /\ WindowInv'
         /\ probes' \in 0 .. FullConfidence
         /\ began' = [began EXCEPT ![t] = NoLink]
<1>1. /\ env \in ProbeEnvironments /\ link \in env.links
      /\ window \in Seq(Sample) /\ Len(window) <= WindowSize
      /\ probes \in 0 .. FullConfidence
      /\ began \in [{"loop", "main"} -> Nat]
  BY DEF ProbeInv, ProbeTypeOK, BeganOK, Sample
<1>2. link \in Bandwidths /\ link \in Nat /\ link >= 4 /\ link # NoLink
  BY <1>1, LinkType, ConstantTypes
<1>3. Share(other) \in Nat /\ Share(other) <= link
  BY <1>2, ShareType
<1>4. PICK bw \in Measured(t, other) :
        window' = Sampled(bw, IF began[t] \in {link, link \div 2} THEN link ELSE NoLink)
  BY DEF TakeSample
<1> DEFINE on == IF began[t] \in {link, link \div 2} THEN link ELSE NoLink
<1>5. bw \in Nat /\ on \in Bandwidths \cup {NoLink} /\ (on # NoLink => bw <= on)
  BY <1>1, <1>2, <1>3, <1>4 DEF Measured
<1> HIDE DEF on
<1>6. /\ window' \in Seq(Sample) /\ Len(window') <= WindowSize
      /\ \A i \in DOMAIN window' : \/ window'[i] = [bw |-> bw, on |-> on]
                                  \/ \E j \in DOMAIN window : window'[i] = window[j]
  BY <1>1, <1>4, <1>5, SampledType, ConstantTypes DEF on
<1>7. SamplesOK'
  BY <1>5, <1>6 DEF SamplesOK, ProbeInv
<1>8. probes' \in 0 .. FullConfidence
  <2>1. probes' = Min({probes + 1, FullConfidence})
    BY DEF TakeSample
  <2>2. probes + 1 \in Nat /\ FullConfidence \in Nat
    BY <1>1, ConstantTypes
  <2>3. Min({probes + 1, FullConfidence}) = IF probes + 1 <= FullConfidence THEN probes + 1 ELSE FullConfidence
    BY <2>2, MinOfTwo
  <2> QED
    BY <2>1, <2>2, <2>3
<1> QED
  BY <1>6, <1>7, <1>8 DEF WindowInv, TakeSample

\* A recorded transfer.
LEMMA RecordKeeps ==
  ASSUME ProbeInv, Record
  PROVE  /\ WindowInv'
         /\ ewma' \in Nat /\ transfers' \in 0 .. ConfidenceTransfers
         /\ transfers' = 0 <=> ewma' = NoLink
         /\ idle' \in 0 .. DecayStart + DecaySteps
<1>1. /\ env \in ProbeEnvironments
      /\ window \in Seq(Sample) /\ Len(window) <= WindowSize /\ SamplesOK
      /\ ewma \in Nat /\ transfers \in 0 .. ConfidenceTransfers
      /\ transfers = 0 <=> ewma = NoLink
      /\ idle \in 0 .. DecayStart + DecaySteps
  BY DEF ProbeInv, ProbeTypeOK, Sample
<1>2. began["main"] \in Nat /\ began["main"] >= 2
  BY DEF ProbeInv, BeganOK, Record
<1>3. CASE UNCHANGED <<window, ewma, transfers, idle>>
  BY <1>1, <1>3 DEF WindowInv, SamplesOK
<1>4. ASSUME NEW ratio \in env.ratios,
             window' = Sampled((began["main"] * ratio[1]) \div ratio[2], NoLink),
             ewma' = Clamped(ewma, (began["main"] * ratio[1]) \div ratio[2]),
             transfers' = Min({transfers + 1, ConfidenceTransfers}),
             idle' = 0
      PROVE  /\ WindowInv'
             /\ ewma' \in Nat /\ transfers' \in 0 .. ConfidenceTransfers
             /\ transfers' = 0 <=> ewma' = NoLink
             /\ idle' \in 0 .. DecayStart + DecaySteps
  <2> DEFINE bw == (began["main"] * ratio[1]) \div ratio[2]
  <2>1. bw \in Nat \ {0}
    <3>1. ratio \in {<<2, 1>>, <<1, 1>>, <<1, 2>>}
      BY <1>1, LinkType
    <3>2. CASE ratio = <<2, 1>>
      BY <1>2, <3>2
    <3>3. CASE ratio = <<1, 1>>
      BY <1>2, <3>3
    <3>4. CASE ratio = <<1, 2>>
      BY <1>2, <3>4
    <3> QED
      BY <3>1, <3>2, <3>3, <3>4
  <2>2. window' = Sampled(bw, NoLink) /\ ewma' = Clamped(ewma, bw)
    BY <1>4
  <2> HIDE DEF bw
  <2>3. /\ window' \in Seq(Sample) /\ Len(window') <= WindowSize
        /\ \A i \in DOMAIN window' : \/ window'[i] = [bw |-> bw, on |-> NoLink]
                                    \/ \E j \in DOMAIN window : window'[i] = window[j]
    <3>1. bw \in Nat /\ NoLink \in Bandwidths \cup {NoLink}
      BY <2>1
    <3>2. window \in Seq(Sample) /\ Len(window) <= WindowSize
      BY <1>1
    <3>3. /\ Sampled(bw, NoLink) \in Seq(Sample)
          /\ Len(Sampled(bw, NoLink)) \in 1 .. WindowSize
          /\ \A i \in DOMAIN Sampled(bw, NoLink) :
               \/ Sampled(bw, NoLink)[i] = [bw |-> bw, on |-> NoLink]
               \/ \E j \in DOMAIN window : Sampled(bw, NoLink)[i] = window[j]
      BY <3>1, <3>2, SampledType
    <3>4. Len(Sampled(bw, NoLink)) <= WindowSize
      BY <3>3, ConstantTypes
    <3> QED
      BY <2>2, <3>3, <3>4
  <2>4. SamplesOK'
    BY <1>1, <2>3 DEF SamplesOK
  <2>5. ewma' \in Nat \ {0}
    BY <1>1, <2>1, <2>2, ClampedType
  <2>6. transfers' \in 1 .. ConfidenceTransfers
    BY <1>1, <1>4, MinOfTwo, ConstantTypes
  <2> QED
    BY <1>4, <2>3, <2>4, <2>5, <2>6, ConstantTypes DEF WindowInv
<1> QED
  BY <1>3, <1>4 DEF Record

LEMMA ProbeInvInit == MCInit => ProbeInv
<1> SUFFICES ASSUME MCInit
             PROVE  ProbeInv
  OBVIOUS
<1>1. TypeOK
  BY TypeInit DEF MCInit, ProbeInit
<1>2. BeganOK /\ SamplesOK
  BY ConstantTypes DEF MCInit, ProbeInit, BeganOK, SamplesOK
<1>3. /\ window = <<>> /\ ewma = NoLink /\ rtt = NoLink /\ transfers = 0 /\ probes = 0 /\ idle = 0
      /\ env \in ProbeEnvironments /\ link \in env.links
      /\ paused = FALSE /\ conn = "none" /\ count = 0 /\ lpc = "idle" /\ mpc = "idle"
  BY DEF MCInit, ProbeInit
<1>4. window \in Seq([bw: Nat, on: Bandwidths \cup {NoLink}]) /\ Len(window) <= WindowSize
  BY <1>3, ConstantTypes
<1>5. /\ transfers \in 0 .. ConfidenceTransfers /\ probes \in 0 .. FullConfidence
      /\ idle \in 0 .. DecayStart + DecaySteps /\ count \in 0 .. Cycle - 1
  BY <1>3, ConstantTypes
<1>6. ewma \in Nat /\ rtt \in Nat /\ (transfers = 0 <=> ewma = NoLink)
  BY <1>3, ConstantTypes
<1> QED
  BY <1>1, <1>2, <1>3, <1>4, <1>5, <1>6 DEF ProbeInv, ProbeTypeOK

LEMMA ProbeInvStep == ProbeInv /\ [MCNext]_allVars => ProbeInv'
<1> SUFFICES ASSUME ProbeInv, [MCNext]_allVars
             PROVE  ProbeInv'
  OBVIOUS
<1>1. TypeOK'
  BY ProbeVotes, TypeStep DEF ProbeInv, ProbeTypeOK
<1>2. /\ env \in ProbeEnvironments /\ link \in env.links
      /\ link \in Nat /\ link >= 4
      /\ window \in Seq(Sample) /\ Len(window) <= WindowSize /\ SamplesOK
      /\ ewma \in Nat /\ rtt \in Nat
      /\ transfers \in 0 .. ConfidenceTransfers /\ probes \in 0 .. FullConfidence
      /\ idle \in 0 .. DecayStart + DecaySteps
      /\ transfers = 0 <=> ewma = NoLink
      /\ paused \in BOOLEAN /\ conn \in {"none", "open", "closed"} /\ count \in 0 .. Cycle - 1
      /\ lpc \in {"idle", "probing"}
      /\ mpc \in {"idle", "probing", "ready", "fp16", "abkt", "record"}
      /\ began \in [{"loop", "main"} -> Nat]
      /\ mpc \in {"fp16", "abkt", "record"} => began["main"] >= 2
  BY LinkType DEF ProbeInv, ProbeTypeOK, BeganOK, Sample
<1>3. \A other : Share(other) \in Nat /\ Share(other) >= 2
  BY <1>2, ShareType
<1> DEFINE Good == /\ env' \in ProbeEnvironments /\ link' \in env'.links /\ WindowInv'
                   /\ ewma' \in Nat /\ rtt' \in Nat
                   /\ transfers' \in 0 .. ConfidenceTransfers /\ probes' \in 0 .. FullConfidence
                   /\ idle' \in 0 .. DecayStart + DecaySteps
                   /\ transfers' = 0 <=> ewma' = NoLink
                   /\ paused' \in BOOLEAN /\ conn' \in {"none", "open", "closed"} /\ count' \in 0 .. Cycle - 1
                   /\ lpc' \in {"idle", "probing"}
                   /\ mpc' \in {"idle", "probing", "ready", "fp16", "abkt", "record"}
                   /\ BeganOK'
<1> SUFFICES Good
  BY <1>1 DEF ProbeInv, ProbeTypeOK, WindowInv, Sample
<1>4. (count + 1) % Cycle \in 0 .. Cycle - 1
  BY <1>2, ConstantTypes
<1>5. CASE UNCHANGED allVars
  BY <1>2, <1>5 DEF allVars, probeVars, estimate, thread, WindowInv, SamplesOK, BeganOK
<1>6. CASE LoopProbe
  BY <1>2, <1>3, <1>4, <1>6 DEF LoopProbe, estimate, WindowInv, SamplesOK, BeganOK
<1>7. CASE LoopSample
  <2>1. TakeSample("loop", mpc) /\ UNCHANGED <<env, link, rtt, paused, conn, count, mpc>> /\ lpc' = "idle"
    BY <1>7 DEF LoopSample
  <2>2. /\ WindowInv' /\ probes' \in 0 .. FullConfidence
        /\ began' = [began EXCEPT !["loop"] = NoLink]
    BY <2>1, TakeSampleKeeps
  <2>3. UNCHANGED <<ewma, transfers, idle>>
    BY <2>1 DEF TakeSample
  <2> QED
    BY <1>2, <2>1, <2>2, <2>3, ConstantTypes DEF BeganOK
<1>8. CASE LoopProbeFails
  BY <1>2, <1>8, ConstantTypes DEF LoopProbeFails, estimate, WindowInv, SamplesOK, BeganOK
<1>9. CASE Echo
  <2>1. /\ count' = (count + 1) % Cycle /\ conn' = (IF conn = "none" THEN "open" ELSE conn)
        /\ UNCHANGED <<env, link, window, ewma, transfers, probes, idle, paused, lpc, mpc, began>>
    BY <1>9 DEF Echo, estimate, thread
  <2>2. rtt' \in Nat
    <3>1. PICK r \in env.rtts : rtt' = Smoothed(rtt, IF conn = "closed" THEN 1 ELSE r)
      BY <1>9 DEF Echo
    <3>2. (IF conn = "closed" THEN 1 ELSE r) \in Nat
      BY <1>2, LinkType
    <3> QED
      BY <1>2, <3>1, <3>2, SmoothedType
  <2> QED
    BY <1>2, <1>4, <2>1, <2>2 DEF WindowInv, SamplesOK, BeganOK
<1>10. CASE EchoFails
  BY <1>2, <1>4, <1>10 DEF EchoFails, estimate, thread, WindowInv, SamplesOK, BeganOK
<1>11. CASE ServerCloses
  BY <1>2, <1>11 DEF ServerCloses, estimate, thread, WindowInv, SamplesOK, BeganOK
<1>12. CASE ForceProbe
  BY <1>2, <1>3, <1>12 DEF ForceProbe, estimate, WindowInv, SamplesOK, BeganOK
<1>13. CASE ForcedSample
  <2>1. TakeSample("main", lpc) /\ UNCHANGED <<env, link, rtt, paused, conn, count, lpc>> /\ mpc' = "ready"
    BY <1>13 DEF ForcedSample
  <2>2. /\ WindowInv' /\ probes' \in 0 .. FullConfidence
        /\ began' = [began EXCEPT !["main"] = NoLink]
    BY <2>1, TakeSampleKeeps
  <2>3. UNCHANGED <<ewma, transfers, idle>>
    BY <2>1 DEF TakeSample
  <2> QED
    BY <1>2, <2>1, <2>2, <2>3, ConstantTypes DEF BeganOK
<1>14. CASE ForcedFails
  BY <1>2, <1>14, ConstantTypes DEF ForcedFails, estimate, WindowInv, SamplesOK, BeganOK
<1>15. CASE StartTransfer
  BY <1>2, <1>3, <1>15 DEF StartTransfer, estimate, WindowInv, SamplesOK, BeganOK
<1>16. CASE EndTransfer
  <2>1. PICK bw \in IF mpc' = "record" THEN Measured("main", lpc) ELSE {NoLink} :
          began' = [began EXCEPT !["main"] = bw]
    BY <1>16 DEF EndTransfer
  <2>2. bw \in Nat /\ (mpc' = "record" => bw >= 2)
    BY <1>2, <1>3, <1>16, <2>1, ConstantTypes DEF Measured, EndTransfer
  <2>3. mpc' \in {"idle", "record"} /\ paused' \in BOOLEAN
    BY <1>2, <1>16 DEF EndTransfer
  <2>4. UNCHANGED <<env, link, window, ewma, transfers, probes, idle, rtt, conn, count, lpc>>
    BY <1>16 DEF EndTransfer, estimate
  <2> QED
    BY <1>2, <2>1, <2>2, <2>3, <2>4 DEF WindowInv, SamplesOK, BeganOK
<1>17. CASE Record
  <2>1. /\ WindowInv' /\ ewma' \in Nat /\ transfers' \in 0 .. ConfidenceTransfers
        /\ transfers' = 0 <=> ewma' = NoLink
        /\ idle' \in 0 .. DecayStart + DecaySteps
    BY <1>17, RecordKeeps
  <2>2. /\ mpc' = "idle" /\ began' = [began EXCEPT !["main"] = NoLink]
        /\ UNCHANGED <<env, link, probes, rtt, paused, conn, count, lpc>>
    BY <1>17 DEF Record
  <2> QED
    BY <1>2, <2>1, <2>2, ConstantTypes DEF BeganOK
<1>18. CASE LinkChanges
  BY <1>2, <1>18 DEF LinkChanges, estimate, thread, WindowInv, SamplesOK, BeganOK
<1>19. CASE TimePasses
  BY <1>2, <1>19, ConstantTypes DEF TimePasses, thread, WindowInv, SamplesOK, BeganOK
<1> HIDE DEF Good
<1> QED
  BY <1>5, <1>6, <1>7, <1>8, <1>9, <1>10, <1>11, <1>12, <1>13, <1>14, <1>15, <1>16, <1>17, <1>18, <1>19
     DEF MCNext, Sampling, Quiet

\* The probe client is well typed: the window stays within its maxlen, the
\* counts where confidence is complete, and no transfer has been recorded as
\* long as their average has no value.
THEOREM ProbeType == MCSpec => []ProbeTypeOK
<1>1. ProbeInv => ProbeTypeOK
  BY DEF ProbeInv
<1> QED
  BY <1>1, ProbeInvInit, ProbeInvStep, PTL DEF MCSpec
-----------------------------------------------------------------------------
(* What get_effective_bw makes of the samples.                              *)
LEMMA ProductType == \A a, b \in Nat : a * b \in Nat
  OBVIOUS

LEMMA ProductMonotone ==
  ASSUME NEW a \in Nat, NEW b \in Nat, NEW c \in Nat, NEW d \in Nat, a <= b, c <= d
  PROVE  a * c <= b * d
<1>1. a * c <= b * c
  OBVIOUS
<1>2. b * c <= b * d
  OBVIOUS
<1>3. a * c \in Nat /\ b * c \in Nat /\ b * d \in Nat
  BY ProductType
<1> QED
  BY <1>1, <1>2, <1>3

\* Confidence and its decay take from nothing to all of the eighth tenth.
LEMMA ConfidenceType ==
  ASSUME ProbeInv
  PROVE  /\ Confidence \in 0 .. FullConfidence /\ Decay \in 0 .. DecaySteps
         /\ Confidence * Decay \in Nat /\ FullConfidence * DecaySteps \in Nat
         /\ Confidence * Decay <= FullConfidence * DecaySteps
<1>1. /\ transfers \in Nat /\ transfers <= ConfidenceTransfers
      /\ probes \in 0 .. FullConfidence /\ idle \in 0 .. DecayStart + DecaySteps
  BY DEF ProbeInv, ProbeTypeOK
<1>2. transfers * ProbeRatio \in Nat /\ transfers * ProbeRatio <= FullConfidence
  BY <1>1, ConstantTypes, ProductType, ProductMonotone DEF FullConfidence
<1>3. Confidence \in 0 .. FullConfidence
  BY <1>1, <1>2, MaxOfTwo, ConstantTypes DEF Confidence
<1>4. Decay \in 0 .. DecaySteps
  <2>1. DecaySteps - (idle - DecayStart) \in Int
    BY <1>1, ConstantTypes
  <2>2. Max({0, DecaySteps - (idle - DecayStart)}) =
          IF 0 >= DecaySteps - (idle - DecayStart) THEN 0 ELSE DecaySteps - (idle - DecayStart)
    BY <2>1, MaxOfTwo
  <2> QED
    BY <1>1, <2>1, <2>2, ConstantTypes DEF Decay
<1> QED
  BY <1>3, <1>4, ProductType, ProductMonotone, ConstantTypes

\* The speeds of a window that holds samples have a least one.
LEMMA WindowBwLeast ==
  ASSUME ProbeInv, window # <<>>
  PROVE  /\ Speeds(window) \in SUBSET Nat /\ Speeds(window) # {}
         /\ WindowBw \in Nat /\ WindowBw \in Speeds(window)
         /\ \A i \in DOMAIN window : WindowBw <= window[i].bw
<1>1. window \in Seq(Sample)
  BY DEF ProbeInv, ProbeTypeOK, Sample
<1>2. \A i \in DOMAIN window : window[i].bw \in Nat
  <2>1. DOMAIN window = 1 .. Len(window) /\ \A i \in 1 .. Len(window) : window[i] \in Sample
    BY <1>1
  <2>2. \A x \in Sample : x.bw \in Nat
    BY DEF Sample
  <2> QED
    BY <2>1, <2>2
<1>3. Speeds(window) \in SUBSET Nat
  BY <1>2 DEF Speeds
<1>4. 1 \in DOMAIN window
  BY <1>1
<1>5. Speeds(window) # {}
  BY <1>4 DEF Speeds
<1>6. WindowBw \in Speeds(window) /\ \A n \in Speeds(window) : WindowBw <= n
  BY <1>3, <1>5, MinNat DEF WindowBw
<1>7. \A i \in DOMAIN window : window[i].bw \in Speeds(window)
  BY DEF Speeds
<1> QED
  BY <1>3, <1>5, <1>6, <1>7

\* Base is the least of the samples and the transfers.
LEMMA BaseIsLeast ==
  ASSUME ProbeInv, window # <<>>, ewma # NoLink
  PROVE  Base \in Nat /\ Base = Min(Speeds(window) \cup {ewma}) /\ Base <= WindowBw
<1>1. ewma \in Nat
  BY DEF ProbeInv, ProbeTypeOK
<1>2. /\ Speeds(window) \in SUBSET Nat
      /\ WindowBw \in Nat /\ WindowBw \in Speeds(window)
  BY WindowBwLeast
<1>3. Base = IF WindowBw <= ewma THEN WindowBw ELSE ewma
  BY <1>1, <1>2, MinOfTwo DEF Base
<1> DEFINE all == Speeds(window) \cup {ewma}
<1>4. Min(all) \in all /\ \A n \in all : Min(all) <= n
  BY <1>1, <1>2, MinNat
<1>5. \A n \in Speeds(window) : WindowBw <= n
  BY <1>2, WindowBwLeast, MinNat DEF WindowBw
<1>6. Min(all) \in Nat
  BY <1>1, <1>2, <1>4
<1>7. Base \in all /\ \A n \in all : Base <= n
  BY <1>1, <1>2, <1>3, <1>5
<1>8. Base = Min(all)
  <2>1. Base <= Min(all) /\ Min(all) <= Base /\ Base \in Nat
    BY <1>1, <1>2, <1>3, <1>4, <1>7
  <2> QED
    BY <2>1, <1>6
<1> QED
  BY <1>1, <1>2, <1>3, <1>8

\* Seven tenths of the base, and up to one tenth more.
LEMMA MarginOfBase ==
  ASSUME NEW base \in Nat, NEW full \in Nat, NEW part \in Nat, part <= full
  PROVE  /\ 7 * (10 * full) * base <= 10 * (base * (7 * full + part))
         /\ 10 * (base * (7 * full + part)) <= 8 * (10 * full) * base
<1>1. base * (7 * full + part) = 7 * (base * full) + base * part
  OBVIOUS
<1>2. 7 * (10 * full) * base = 70 * (base * full) /\ 8 * (10 * full) * base = 80 * (base * full)
  OBVIOUS
<1>3. base * part <= base * full
  BY ProductMonotone
<1>4. base * part \in Nat /\ base * full \in Nat
  BY ProductType
<1> QED
  BY <1>1, <1>2, <1>3, <1>4

LEMMA EffectiveMargin ==
  ASSUME ProbeInv, window # <<>>, ewma # NoLink
  PROVE  7 * Scale * Base <= 10 * Effective /\ 10 * Effective <= 8 * Scale * Base
<1> DEFINE full == FullConfidence * DecaySteps
           part == Confidence * Decay
<1>1. full \in Nat /\ part \in Nat /\ part <= full
  BY ConfidenceType
<1>2. Scale = 10 * full
  BY ConstantTypes DEF Scale
<1>3. 7 * FullConfidence * DecaySteps = 7 * full
  BY ConstantTypes
<1>4. Effective = Base * (7 * full + part)
  BY <1>3 DEF Effective
<1> HIDE DEF full, part
<1> QED
  BY <1>1, <1>2, <1>4, BaseIsLeast, MarginOfBase

\* However the samples, confidence and its decay combine, the estimate keeps
\* its margin: once there are samples and an average of transfers, it is 0.7
\* to 0.8 of the least of them, two to three tenths below it.
THEOREM EstimateMargin == MCSpec => []EstimateInMargin
<1>1. ProbeInv => EstimateInMargin
  BY EffectiveMargin, BaseIsLeast DEF EstimateInMargin
<1> QED
  BY <1>1, ProbeInvInit, ProbeInvStep, PTL DEF MCSpec

\* One sample of the link as it is keeps the estimate within four fifths of
\* it, whatever else is in the window and whatever transfers have counted as.
THEOREM EstimateLink == MCSpec => []EstimateWithinLink
<1>1. ProbeInv => EstimateWithinLink
  <2> SUFFICES ASSUME ProbeInv, NEW i \in DOMAIN window, window[i].on = link
               PROVE  10 * Effective <= 8 * Scale * link
    BY DEF EstimateWithinLink
  <2>1. link \in Nat /\ link # NoLink
    BY LinkType, ConstantTypes DEF ProbeInv, ProbeTypeOK
  <2>2. window[i].bw \in Nat /\ window[i].bw <= link /\ window # <<>>
    <3>1. window \in Seq(Sample)
      BY DEF ProbeInv, ProbeTypeOK, Sample
    <3>2. window[i] \in Sample /\ window # <<>>
      BY <3>1
    <3>3. window[i].bw \in Nat
      BY <3>2 DEF Sample
    <3> QED
      BY <2>1, <3>2, <3>3 DEF ProbeInv, SamplesOK
  <2>3. WindowBw \in Nat /\ WindowBw <= link
    BY <2>1, <2>2, WindowBwLeast
  <2>4. Scale \in Nat /\ 8 * Scale \in Nat /\ Scale = 10 * (FullConfidence * DecaySteps)
        /\ FullConfidence * DecaySteps \in Nat
    BY ConstantTypes, ConfidenceType DEF Scale
  <2>5. CASE ewma # NoLink
    <3>1. Base \in Nat /\ Base <= link
      BY <2>1, <2>2, <2>3, <2>5, BaseIsLeast
    <3>2. (8 * Scale) * Base <= (8 * Scale) * link
      BY <2>1, <2>4, <3>1, ProductMonotone
    <3>3. 10 * Effective <= (8 * Scale) * Base
      BY <2>2, <2>5, EffectiveMargin
    <3>4. Effective \in Nat
      <4>1. 7 * FullConfidence * DecaySteps + Confidence * Decay \in Nat
        BY ConstantTypes, ConfidenceType
      <4>2. Effective = Base * (7 * FullConfidence * DecaySteps + Confidence * Decay)
        BY <2>5 DEF Effective
      <4> QED
        BY <3>1, <4>1, <4>2, ProductType
    <3> QED
      BY <3>2, <3>3, <3>4, <2>1, <2>4, <3>1, ProductType
  <2>6. CASE ewma = NoLink
    <3> DEFINE full == FullConfidence * DecaySteps
    <3>1. Effective = WindowBw * (7 * full)
      BY <2>2, <2>6, ConstantTypes DEF Effective
    <3>2. 10 * Effective <= 8 * (10 * full) * WindowBw
      <4> HIDE DEF full
      <4> QED
        BY <2>3, <2>4, <3>1, MarginOfBase DEF full
    <3>3. (8 * Scale) * WindowBw <= (8 * Scale) * link
      BY <2>1, <2>3, <2>4, ProductMonotone
    <3> QED
      BY <2>1, <2>3, <2>4, <3>1, <3>2, <3>3, ProductType
  <2> QED
    BY <2>5, <2>6
<1> QED
  BY <1>1, ProbeInvInit, ProbeInvStep, PTL DEF MCSpec
=============================================================================
