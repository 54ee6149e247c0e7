-------------------------- MODULE TransferPlan_proof --------------------------
(***************************************************************************)
(* What PrecisionAllocator.allocate guarantees for every model size, every *)
(* ranking of the groups and every budget: the upgrades stay within the    *)
(* budget, leave none behind that would fit, and respect the importance.   *)
(* And what run_prefill_turn makes of it: the plan for a turn, unless      *)
(* shedding ends on the FP16 path, can be sent in MAX_TRANSFER_TIME, and   *)
(* it announces no layer that is not sent.                                 *)
(*                                                                         *)
(* The inductive invariant of allocate says of the entries already visited *)
(* what holds of all of them at the end: no higher precision is            *)
(* affordable, and the more important of two comparable entries was        *)
(* visited first.                                                          *)
(***************************************************************************)
EXTENDS TransferPlan, InductionLemmas, FiniteSetTheorems, TLAPS

\* The precision an entry has before it is upgraded.
Start(e) == IF feasible THEN MinPrecision(call, e[1]) ELSE 2

\* The entries ImportanceRespected compares.
Better(e, f) == /\ ElemCount(e) = ElemCount(f) /\ call.imp[e] > call.imp[f]
                /\ feasible => MinPrecision(call, e[1]) = MinPrecision(call, f[1])

Visited == Entries \ todo

\* The arguments are fit to allocate from.
CallOK ==
  /\ DOMAIN call = {"layers", "numLayers", "seqLen", "imp", "budget"}
  /\ call.layers \subseteq Nat /\ IsFiniteSet(call.layers)
  /\ call.numLayers \in Int /\ call.seqLen \in Nat \ {0} /\ call.budget \in Nat
  /\ call.imp \in [Entries -> 0 .. MaxImportance]

StartInv ==
  /\ CallOK
  /\ pc = "floor" => feasible /\ \A e \in Entries : assign[e] = MinPrecision(call, e[1])
  /\ pc = "upgrade" => /\ \A e \in todo : assign[e] = Start(e)
                       /\ \A e \in Entries : assign[e] >= Start(e)

SpentInv ==
  pc = "upgrade" => \A e \in Visited, p \in Precision :
                      p > assign[e] => used + Cost(e, p) > call.budget

RankInv ==
  pc = "upgrade" /\ ~Unsortable =>
    \A e, f \in Entries : Better(e, f) /\ f \in Visited => e \in Visited /\ assign[e] >= assign[f]

AllocInv == AllocationTypeOK /\ StartInv /\ PayloadWithinBudget /\ SpentInv /\ NoUpgradeLeft
            /\ RankInv /\ ImportanceRespected
-----------------------------------------------------------------------------
(* Sizes. *)

LEMMA DivMonotone ==
  ASSUME NEW n \in Nat \ {0}, NEW a \in Nat, NEW b \in Nat, a <= b
  PROVE  a \div n <= b \div n
OBVIOUS

\* The arguments, and the types of what is computed from them.
LEMMA CallFacts ==
  ASSUME CallOK
  PROVE  /\ call.layers \subseteq Nat /\ IsFiniteSet(call.layers)
         /\ call.seqLen \in Nat \ {0} /\ call.budget \in Nat
         /\ call.imp \in [Entries -> 0 .. MaxImportance]
BY DEF CallOK

LEMMA CallKept ==
  ASSUME CallOK, call' = call
  PROVE  CallOK'
BY DEF CallOK, Entries

LEMMA GroupSizeType ==
  ASSUME CallOK, NEW g \in Groups
  PROVE  GroupSize(call.seqLen, g) \in Nat
<1>1. NumGroups \in Nat \ {0} /\ call.seqLen \in Nat /\ g \in Nat
  BY CallFacts, SizesAssumption DEF Groups
<1>2. g * call.seqLen \in Nat /\ (g + 1) * call.seqLen \in Nat
  BY <1>1
<1>3. g * call.seqLen <= (g + 1) * call.seqLen
  BY <1>1
<1>4. (g * call.seqLen) \div NumGroups <= ((g + 1) * call.seqLen) \div NumGroups
  BY <1>1, <1>2, <1>3, DivMonotone
<1>5. (g * call.seqLen) \div NumGroups \in Int /\ ((g + 1) * call.seqLen) \div NumGroups \in Int
  BY <1>1, <1>2
<1>6. QED
  BY <1>4, <1>5 DEF GroupSize

LEMMA ElemCountType ==
  ASSUME CallOK, NEW e \in Entries
  PROVE  ElemCount(e) \in Nat
<1>1. e[2] \in Groups
  BY DEF Entries
<1>2. GroupSize(call.seqLen, e[2]) \in Nat /\ PerToken \in Nat
  BY <1>1, GroupSizeType, SizesAssumption
<1>3. QED
  BY <1>2 DEF ElemCount

LEMMA BytesOf == Bytes(16) = 8 /\ Bytes(8) = 4 /\ Bytes(4) = 2 /\ Bytes(2) = 1
BY DEF Bytes

LEMMA FloorType == \A e \in Entries : MinPrecision(call, e[1]) \in {8, 4, 2} /\ Start(e) \in {8, 4, 2}
BY DEF MinPrecision, Start

LEMMA TotalType ==
  ASSUME CallOK, NEW p \in Precision
  PROVE  TotalBytes(call, p) \in Nat
<1>1. Cardinality(call.layers) \in Nat /\ call.seqLen \in Nat /\ PerToken \in Nat
  BY CallFacts, SizesAssumption, FS_CardinalityType
<1>2. Bytes(p) \in Nat
  BY BytesOf DEF Precision
<1>3. Cardinality(call.layers) * call.seqLen \in Nat
  BY <1>1
<1>4. Cardinality(call.layers) * call.seqLen * PerToken \in Nat
  BY <1>1, <1>3
<1>5. QED
  BY <1>2, <1>4 DEF TotalBytes

LEMMA MetadataType ==
  ASSUME CallOK
  PROVE  MetadataBytes(call, 2) \in Nat
<1>1. /\ Cardinality(call.layers) \in Nat /\ call.seqLen \in Nat /\ NumGroups \in Nat
      /\ HeadDim \in Nat
  BY CallFacts, SizesAssumption, FS_CardinalityType
<1>2. NumGroups * HeadDim \in Nat
  BY <1>1
<1>3. (NumGroups * HeadDim + call.seqLen) * 16 \in Nat
  BY <1>1, <1>2
<1>4. MetadataBytes(call, 2) = Cardinality(call.layers) * ((NumGroups * HeadDim + call.seqLen) * 16)
  BY DEF MetadataBytes
<1>5. QED
  BY <1>1, <1>3, <1>4

LEMMA GroupMetaType ==
  ASSUME CallOK, NEW e \in Entries
  PROVE  GroupMeta(e) \in Nat
<1>1. e[2] \in Groups
  BY DEF Entries
<1>2. GroupSize(call.seqLen, e[2]) \in Nat /\ HeadDim \in Nat
  BY <1>1, GroupSizeType, SizesAssumption
<1>3. QED
  BY <1>2 DEF GroupMeta
-----------------------------------------------------------------------------
(* An upgrade. *)

\* The loop stops at the highest precision it can afford.
LEMMA UpgradedFacts ==
  ASSUME AllocationTypeOK, CallOK, NEW e \in Entries
  PROVE  /\ Upgraded(e) \in Precision /\ Upgraded(e) >= assign[e]
         /\ Cost(e, Upgraded(e)) \in Nat
         /\ Upgraded(e) = assign[e] \/ used + Cost(e, Upgraded(e)) <= call.budget
         /\ \A p \in Precision : p > Upgraded(e) => used + Cost(e, p) > call.budget
<1>1. assign[e] \in Precision /\ used \in Nat /\ ElemCount(e) \in Nat /\ call.budget \in Nat
  BY ElemCountType, CallFacts DEF AllocationTypeOK
<1>2. Affordable(e) \subseteq Precision /\ assign[e] \in Affordable(e)
  BY <1>1 DEF Affordable
<1>3. \E p \in Affordable(e) : \A q \in Affordable(e) : q <= p
  <2>1. CASE 16 \in Affordable(e)
    BY <1>2, <2>1 DEF Precision
  <2>2. CASE 16 \notin Affordable(e) /\ 8 \in Affordable(e)
    BY <1>2, <2>2 DEF Precision
  <2>3. CASE 16 \notin Affordable(e) /\ 8 \notin Affordable(e) /\ 4 \in Affordable(e)
    BY <1>2, <2>3 DEF Precision
  <2>4. CASE 16 \notin Affordable(e) /\ 8 \notin Affordable(e) /\ 4 \notin Affordable(e)
    BY <1>2, <2>4 DEF Precision
  <2>5. QED
    BY <2>1, <2>2, <2>3, <2>4
<1>4. Upgraded(e) \in Affordable(e) /\ \A q \in Affordable(e) : q <= Upgraded(e)
  BY <1>3 DEF Upgraded
<1>5. Upgraded(e) \in Precision /\ Upgraded(e) >= assign[e]
  BY <1>2, <1>4
<1>6. \A p \in Precision : Cost(e, p) \in Int /\ (p >= assign[e] => Cost(e, p) \in Nat)
  <2>1. TAKE p \in Precision
  <2>2. Bytes(p) - Bytes(assign[e]) \in Int /\ (p >= assign[e] => Bytes(p) - Bytes(assign[e]) \in Nat)
    BY <1>1, BytesOf DEF Precision
  <2>3. QED
    BY <1>1, <2>2 DEF Cost
<1>7. \A p \in Precision : p > Upgraded(e) => used + Cost(e, p) > call.budget
  <2>1. SUFFICES ASSUME NEW p \in Precision, p > Upgraded(e), used + Cost(e, p) <= call.budget
                 PROVE  FALSE
    BY <1>1, <1>6
  <2>2. p > assign[e]
    BY <1>1, <1>5, <2>1 DEF Precision
  <2>3. p \in Affordable(e)
    BY <2>1, <2>2 DEF Affordable
  <2>4. QED
    BY <1>4, <1>5, <2>1, <2>3 DEF Precision
<1>8. Upgraded(e) = assign[e] \/ used + Cost(e, Upgraded(e)) <= call.budget
  BY <1>4 DEF Affordable
<1>9. QED
  BY <1>5, <1>6, <1>7, <1>8

\* Of two comparable entries the more important one comes first.
LEMMA BetterFirst ==
  ASSUME CallOK, NEW e \in Entries, NEW f \in Entries, Better(e, f),
         e \in todo, NextUp(f), ~Unsortable
  PROVE  FALSE
<1>1. /\ call.imp[e] \in Nat /\ call.imp[f] \in Nat /\ call.imp[e] > call.imp[f] /\ e # f
  BY CallFacts, SizesAssumption DEF Better
<1>2. Before(f, e)
  BY <1>1 DEF NextUp
<1>3. CASE feasible
  <2>1. /\ MinPrecision(call, e[1]) = MinPrecision(call, f[1])
        /\ MinPrecision(call, e[1]) \in {8, 4, 2}
    BY <1>3, FloorType DEF Better
  <2>2. PICK loss \in {1, 10, 150} : /\ QualityLoss(MinPrecision(call, e[1])) = loss
                                     /\ QualityLoss(MinPrecision(call, f[1])) = loss
    BY <2>1 DEF QualityLoss
  <2>3. Benefit(e) = call.imp[e] * loss /\ Benefit(f) = call.imp[f] * loss
    BY <1>3, <2>2 DEF Benefit
  <2>4. Benefit(e) > Benefit(f) /\ Benefit(e) \in Nat /\ Benefit(f) \in Nat
    BY <1>1, <2>3
  <2>5. QED
    BY <1>2, <2>4 DEF Before
<1>4. CASE ~feasible
  BY <1>1, <1>2, <1>4 DEF Before, Benefit
<1>5. QED
  BY <1>3, <1>4

\* Comparable entries pay the same for the same precision.
LEMMA SameStart ==
  ASSUME NEW e, NEW f, Better(e, f)
  PROVE  Start(e) = Start(f) /\ ElemCount(e) = ElemCount(f)
BY DEF Better, Start

LEMMA AllocInit == Init => AllocInv
<1> SUFFICES ASSUME Init PROVE AllocInv
  OBVIOUS
<1>1. AllocationTypeOK
  BY DEF Init, AllocationTypeOK, Uniform, Precision
<1>2. CallOK
  BY CallsAssumption DEF Init, CallOK, Entries
<1>3. QED
  BY <1>1, <1>2 DEF Init, AllocInv, StartInv, PayloadWithinBudget, SpentInv, NoUpgradeLeft,
                    RankInv, ImportanceRespected

\* All entries in one precision: AllFP16 and BareInt2.
LEMMA UniformReturn ==
  ASSUME AllocInv, AllFP16 \/ BareInt2
  PROVE  AllocInv'
<1>1. call' = call /\ CallOK /\ pc' = "returned" /\ todo' = todo /\ feasible' \in BOOLEAN
  BY DEF AllFP16, BareInt2, AllocInv, StartInv
<1>2. PICK p \in {16, 2} : assign' = Uniform(p)
  BY DEF AllFP16, BareInt2
<1>3. used' \in Nat
  BY <1>1, TotalType, MetadataType DEF AllFP16, BareInt2, Precision
<1>4. Entries' = Entries /\ \A e \in Entries : assign'[e] = p
  BY <1>1, <1>2 DEF Entries, Uniform
<1>5. AllocationTypeOK'
  BY <1>1, <1>2, <1>3, <1>4 DEF AllocInv, AllocationTypeOK, Uniform, Precision
<1>6. ImportanceRespected'
  BY <1>2, <1>4 DEF ImportanceRespected
<1>7. QED
  BY CallKept, <1>1, <1>5, <1>6 DEF AllocInv, StartInv, PayloadWithinBudget, SpentInv, NoUpgradeLeft, RankInv

\* The floor: assigned, added up, found to fit.
LEMMA FloorStep ==
  ASSUME AllocInv, StartFloor \/ AddFloor
  PROVE  AllocInv'
<1>1. /\ call' = call /\ CallOK /\ pc' = "floor" /\ feasible'
      /\ todo' \subseteq Entries /\ feasible' \in BOOLEAN
  BY DEF StartFloor, AddFloor, AllocInv, AllocationTypeOK, StartInv
<1>2. assign' = [e \in Entries |-> MinPrecision(call, e[1])]
      \/ (assign' = assign /\ \A e \in Entries : assign[e] = MinPrecision(call, e[1]))
  BY DEF StartFloor, AddFloor, AllocInv, StartInv
<1>3. Entries' = Entries /\ \A l : MinPrecision(call, l)' = MinPrecision(call, l)
  BY <1>1 DEF Entries, MinPrecision, Compressed, TotalBytes
<1>4. assign' \in [Entries -> Precision] /\ \A e \in Entries : assign'[e] = MinPrecision(call, e[1])
  BY <1>2, FloorType DEF AllocInv, AllocationTypeOK, Precision
<1>5. used' \in Nat
  <2>1. CASE StartFloor
    BY <2>1 DEF StartFloor
  <2>2. CASE AddFloor
    <3>1. PICK e \in todo : used' = used + Bytes(assign[e]) * ElemCount(e)
      BY <2>2 DEF AddFloor
    <3>2. e \in Entries /\ used \in Nat /\ assign[e] \in Precision
      BY DEF AllocInv, AllocationTypeOK
    <3>3. ElemCount(e) \in Nat /\ Bytes(assign[e]) \in Nat
      BY <1>1, <3>2, ElemCountType, BytesOf DEF Precision
    <3>4. QED
      BY <3>1, <3>2, <3>3
  <2>3. QED
    BY <2>1, <2>2
<1>6. AllocationTypeOK'
  BY <1>1, <1>3, <1>4, <1>5 DEF AllocationTypeOK
<1>7. StartInv'
  BY CallKept, <1>1, <1>3, <1>4 DEF StartInv
<1>8. QED
  BY <1>1, <1>6, <1>7
     DEF AllocInv, PayloadWithinBudget, SpentInv, NoUpgradeLeft, RankInv, ImportanceRespected

\* The upgrades begin: nothing is visited yet, and the start is paid for.
LEMMA BeginUpgrades ==
  ASSUME AllocInv, FloorFits \/ StartFromInt2
  PROVE  AllocInv'
<1>1. /\ call' = call /\ CallOK /\ pc' = "upgrade" /\ todo' = Entries
      /\ feasible' \in BOOLEAN
  BY DEF FloorFits, StartFromInt2, AllocInv, AllocationTypeOK, StartInv
<1>2. Entries' = Entries /\ \A l : MinPrecision(call, l)' = MinPrecision(call, l)
  BY <1>1 DEF Entries, MinPrecision, Compressed, TotalBytes
<1>3. used' \in Nat /\ used' <= call.budget
  BY <1>1, TotalType DEF FloorFits, StartFromInt2, AllocInv, AllocationTypeOK, Precision
<1>4. /\ assign' \in [Entries -> Precision]
      /\ \A e \in Entries : assign'[e] = IF feasible' THEN MinPrecision(call, e[1]) ELSE 2
  <2>1. CASE FloorFits
    BY <2>1 DEF FloorFits, AllocInv, AllocationTypeOK, StartInv
  <2>2. CASE StartFromInt2
    BY <2>2 DEF StartFromInt2, Uniform, Precision
  <2>3. QED
    BY <2>1, <2>2
<1>5. AllocationTypeOK'
  BY <1>1, <1>2, <1>3, <1>4 DEF AllocationTypeOK
<1>6. StartInv'
  <2>1. \A e \in Entries : assign'[e] = Start(e)' /\ assign'[e] \in {8, 4, 2}
    BY <1>2, <1>4, FloorType DEF Start
  <2>2. \A e \in Entries : assign'[e] >= Start(e)'
    BY <2>1
  <2>3. QED
    BY CallKept, <1>1, <1>2, <2>1, <2>2 DEF StartInv
<1>7. Visited' = {}
  BY <1>1, <1>2 DEF Visited
<1>8. PayloadWithinBudget' /\ SpentInv' /\ RankInv'
  BY <1>1, <1>3, <1>7 DEF PayloadWithinBudget, SpentInv, RankInv
<1>9. QED
  BY <1>1, <1>5, <1>6, <1>8 DEF AllocInv, NoUpgradeLeft, ImportanceRespected

\* What a step of the upgrades keeps.
LEMMA SameCall ==
  ASSUME call' = call, feasible' = feasible
  PROVE  /\ Entries' = Entries /\ Unsortable' = Unsortable
         /\ \A l : MinPrecision(call, l)' = MinPrecision(call, l)
         /\ \A e : Start(e)' = Start(e) /\ ElemCount(e)' = ElemCount(e)
         /\ \A e, f : Better(e, f)' = Better(e, f)
BY DEF Entries, Unsortable, MinPrecision, Compressed, TotalBytes, Start, ElemCount, Better

\* The entry upgraded joins those visited.
LEMMA UpgradeStep ==
  ASSUME AllocInv, Upgrade
  PROVE  AllocInv'
<1>1. PICK x \in todo : /\ NextUp(x)
                        /\ assign' = [assign EXCEPT ![x] = Upgraded(x)]
                        /\ used' = used + Cost(x, Upgraded(x))
                        /\ todo' = todo \ {x}
  BY DEF Upgrade
<1>2. /\ pc = "upgrade" /\ pc' = pc /\ call' = call /\ CallOK /\ feasible' = feasible
      /\ AllocationTypeOK /\ todo \subseteq Entries
  BY DEF Upgrade, AllocInv, StartInv, AllocationTypeOK
<1>3. /\ Entries' = Entries /\ Unsortable' = Unsortable
      /\ \A l : MinPrecision(call, l)' = MinPrecision(call, l)
      /\ \A e : Start(e)' = Start(e) /\ ElemCount(e)' = ElemCount(e)
      /\ \A e, f : Better(e, f)' = Better(e, f)
  BY <1>2, SameCall
<1> DEFINE u == Upgraded(x)
           c == Cost(x, u)
<1>4. /\ u \in Precision /\ u >= assign[x] /\ c \in Nat
      /\ u = assign[x] \/ used + c <= call.budget
      /\ \A p \in Precision : p > u => used + Cost(x, p) > call.budget
  BY <1>2, UpgradedFacts
<1>5. c = (Bytes(u) - Bytes(assign[x])) * ElemCount(x)
  BY DEF Cost
<1>6. assign' = [assign EXCEPT ![x] = u] /\ used' = used + c
  BY <1>1
<1> HIDE DEF u, c
<1>7. /\ used \in Nat /\ call.budget \in Nat
      /\ \A e \in Entries : assign[e] \in Precision /\ ElemCount(e) \in Nat
  BY <1>2, CallFacts, ElemCountType DEF AllocationTypeOK
<1>8. /\ assign'[x] = u /\ \A e \in Entries : e # x => assign'[e] = assign[e]
      /\ assign' \in [Entries -> Precision]
  BY <1>2, <1>4, <1>6 DEF AllocationTypeOK
<1>9. AllocationTypeOK'
  BY <1>1, <1>2, <1>3, <1>4, <1>6, <1>7, <1>8 DEF AllocationTypeOK
<1>10. Visited' = Visited \cup {x} /\ x \notin Visited /\ Visited \subseteq Entries
  BY <1>1, <1>2, <1>3 DEF Visited
<1>11. assign[x] = Start(x) /\ \A e \in Entries : assign[e] >= Start(e)
  BY <1>2 DEF AllocInv, StartInv
<1>12. StartInv'
  <2>1. \A e \in todo' : assign'[e] = Start(e)
    BY <1>1, <1>2, <1>8 DEF AllocInv, StartInv
  <2>2. \A e \in Entries : assign'[e] >= Start(e)
    BY <1>4, <1>8, <1>11
  <2>3. QED
    BY CallKept, <1>2, <1>3, <2>1, <2>2 DEF StartInv
<1>13. used' \in Nat /\ used' <= call.budget
  <2>1. CASE u = assign[x]
    <3>1. c = 0
      BY <1>1, <1>2, <1>5, <1>7, <2>1, BytesOf DEF Precision
    <3>2. QED
      BY <1>2, <1>6, <1>7, <3>1 DEF AllocInv, PayloadWithinBudget
  <2>2. CASE used + c <= call.budget
    BY <1>4, <1>6, <1>7, <2>2
  <2>3. QED
    BY <1>4, <2>1, <2>2
<1>14. SpentInv'
  <2> SUFFICES ASSUME NEW e \in Visited', NEW p \in Precision, p > assign'[e]
               PROVE  used' + Cost(e, p)' > call.budget
    BY <1>2 DEF SpentInv
  <2>1. Cost(e, p)' = (Bytes(p) - Bytes(assign'[e])) * ElemCount(e)
    BY <1>3 DEF Cost, Bytes
  <2>2. CASE e = x
    <3>1. Cost(x, p) = (Bytes(p) - Bytes(assign[x])) * ElemCount(x)
      BY DEF Cost
    <3>2. used + Cost(x, p) > call.budget
      BY <1>4, <1>8, <2>2
    <3>3. ElemCount(x) \in Nat /\ assign[x] \in Precision
      BY <1>1, <1>2, <1>7
    <3>4. used' + Cost(e, p)' = used + Cost(x, p)
      BY <1>4, <1>5, <1>6, <1>7, <1>8, <2>1, <2>2, <3>1, <3>3, BytesOf DEF Precision
    <3>5. QED
      BY <3>2, <3>4
  <2>3. CASE e \in Visited
    <3>1. assign'[e] = assign[e] /\ e \in Entries
      BY <1>8, <1>10, <2>3
    <3>2. Cost(e, p)' = Cost(e, p)
      BY <2>1, <3>1 DEF Cost
    <3>3. used + Cost(e, p) > call.budget
      BY <1>2, <2>3, <3>1 DEF AllocInv, SpentInv
    <3>4. Cost(e, p) \in Int
      BY <1>7, <3>1, BytesOf DEF Cost, Precision
    <3>5. QED
      BY <1>4, <1>6, <1>7, <3>2, <3>3, <3>4
  <2>4. QED
    BY <1>10, <2>2, <2>3
<1>15. RankInv'
  <2> SUFFICES ASSUME ~Unsortable, NEW e \in Entries, NEW f \in Entries, Better(e, f),
                      f \in Visited'
               PROVE  e \in Visited' /\ assign'[e] >= assign'[f]
    BY <1>2, <1>3 DEF RankInv
  <2>1. CASE f \in Visited
    <3>1. e \in Visited /\ assign[e] >= assign[f]
      BY <1>2, <2>1 DEF AllocInv, RankInv
    <3>2. QED
      BY <1>8, <1>10, <2>1, <3>1
  <2>2. CASE f = x
    <3>1. e \notin todo
      BY <1>1, <1>2, <2>2, BetterFirst
    <3>2. e \in Visited /\ e # x
      BY <1>1, <3>1 DEF Visited
    <3>3. Start(e) = Start(x) /\ ElemCount(e) = ElemCount(x)
      BY <2>2, SameStart
    <3>4. assign[e] >= assign[x] /\ assign[e] \in Precision /\ assign[x] \in Precision
      BY <1>1, <1>2, <1>7, <1>11, <3>3
    <3>5. ASSUME u > assign[e] PROVE FALSE
      <4>1. used + Cost(e, u) > call.budget
        BY <1>2, <1>4, <3>2, <3>5 DEF AllocInv, SpentInv
      <4>2. Cost(e, u) = (Bytes(u) - Bytes(assign[e])) * ElemCount(x)
        BY <3>3 DEF Cost
      <4>3. ElemCount(x) \in Nat
        BY <1>1, <1>2, <1>7
      <4>4. Cost(e, u) <= c
        BY <1>4, <1>5, <3>4, <3>5, <4>2, <4>3, BytesOf DEF Precision
      <4>5. Cost(e, u) \in Int
        BY <1>4, <3>4, <4>2, <4>3, BytesOf DEF Precision
      <4>6. used + c <= call.budget
        BY <1>4, <3>4, <3>5 DEF Precision
      <4>7. QED
        BY <1>4, <1>7, <4>1, <4>4, <4>5, <4>6
    <3>6. QED
      BY <1>4, <1>8, <1>10, <2>2, <3>2, <3>4, <3>5 DEF Precision
  <2>3. QED
    BY <1>10, <2>1, <2>2
<1>16. PayloadWithinBudget'
  BY <1>2, <1>13 DEF PayloadWithinBudget
<1>17. NoUpgradeLeft' /\ ImportanceRespected'
  BY <1>2 DEF NoUpgradeLeft, ImportanceRespected
<1>18. QED
  BY <1>9, <1>12, <1>14, <1>15, <1>16, <1>17 DEF AllocInv

LEMMA EndUpgradeStep ==
  ASSUME AllocInv, EndUpgrade
  PROVE  AllocInv'
<1>1. /\ pc = "upgrade" /\ pc' = "metadata" /\ todo = {} /\ todo' = Entries
      /\ call' = call /\ feasible' = feasible /\ UNCHANGED <<assign, used>>
  BY DEF EndUpgrade
<1>2. /\ Entries' = Entries /\ Unsortable' = Unsortable
      /\ \A l : MinPrecision(call, l)' = MinPrecision(call, l)
      /\ \A e : Start(e)' = Start(e) /\ ElemCount(e)' = ElemCount(e)
      /\ \A e, f : Better(e, f)' = Better(e, f)
  BY <1>1, SameCall
<1>3. Visited = Entries
  BY <1>1 DEF Visited
<1>4. AllocationTypeOK' /\ StartInv' /\ SpentInv' /\ RankInv'
  BY CallKept, <1>1, <1>2 DEF AllocInv, AllocationTypeOK, StartInv, SpentInv, RankInv
<1>5. PayloadWithinBudget'
  BY <1>1 DEF AllocInv, PayloadWithinBudget
<1>6. NoUpgradeLeft'
  <2> SUFFICES ASSUME NEW e \in Entries, NEW p \in Precision, p > assign[e]
               PROVE  used' + Cost(e, p)' > call.budget
    BY <1>1, <1>2 DEF NoUpgradeLeft
  <2>1. Cost(e, p)' = Cost(e, p)
    BY <1>1, <1>2 DEF Cost
  <2>2. QED
    BY <1>1, <1>3, <2>1 DEF AllocInv, SpentInv
<1>7. ImportanceRespected'
  <2> SUFFICES ASSUME ~Unsortable, NEW e \in Entries, NEW f \in Entries, Better(e, f)
               PROVE  assign[e] >= assign[f]
    BY <1>1, <1>2 DEF ImportanceRespected, Better
  <2>1. QED
    BY <1>1, <1>3 DEF AllocInv, RankInv
<1>8. QED
  BY <1>4, <1>5, <1>6, <1>7 DEF AllocInv

\* Metadata is added to used alone, and no longer to what the budget limits.
LEMMA MetadataStep ==
  ASSUME AllocInv, AddMetadata \/ Return
  PROVE  AllocInv'
<1>1. /\ pc = "metadata" /\ call' = call /\ CallOK /\ feasible' = feasible
      /\ assign' = assign /\ todo \subseteq Entries /\ todo' \subseteq Entries
      /\ pc' = "metadata" => todo' # Entries
      /\ pc' \in {"metadata", "returned"}
  BY DEF AddMetadata, Return, AllocInv, AllocationTypeOK, StartInv
<1>2. /\ Entries' = Entries /\ Unsortable' = Unsortable
      /\ \A l : MinPrecision(call, l)' = MinPrecision(call, l)
      /\ \A e : Start(e)' = Start(e) /\ ElemCount(e)' = ElemCount(e)
      /\ \A e, f : Better(e, f)' = Better(e, f)
  BY <1>1, SameCall
<1>3. used' \in Nat
  <2>1. CASE Return
    BY <2>1 DEF Return, AllocInv, AllocationTypeOK
  <2>2. CASE AddMetadata
    <3>1. PICK e \in todo : used' = used + (IF assign[e] <= 4 THEN GroupMeta(e) ELSE 0)
      BY <2>2 DEF AddMetadata
    <3>2. GroupMeta(e) \in Nat /\ used \in Nat
      BY <1>1, GroupMetaType DEF AllocInv, AllocationTypeOK
    <3>3. QED
      BY <3>1, <3>2
  <2>3. QED
    BY <2>1, <2>2
<1>4. AllocationTypeOK' /\ StartInv'
  BY CallKept, <1>1, <1>2, <1>3 DEF AllocInv, AllocationTypeOK, StartInv
<1>5. PayloadWithinBudget' /\ SpentInv' /\ NoUpgradeLeft' /\ RankInv'
  BY <1>1, <1>2 DEF PayloadWithinBudget, SpentInv, NoUpgradeLeft, RankInv
<1>6. ImportanceRespected'
  <2> SUFFICES ASSUME ~Unsortable, NEW e \in Entries, NEW f \in Entries, Better(e, f)
               PROVE  assign[e] >= assign[f]
    BY <1>1, <1>2 DEF ImportanceRespected, Better
  <2>1. QED
    BY <1>1 DEF AllocInv, ImportanceRespected, Better
<1>7. QED
  BY <1>4, <1>5, <1>6 DEF AllocInv

LEMMA AllocStutter ==
  ASSUME AllocInv, UNCHANGED allocation
  PROVE  AllocInv'
<1>1. call' = call /\ feasible' = feasible /\ UNCHANGED <<pc, todo, assign, used>>
  BY DEF allocation
<1>2. /\ Entries' = Entries /\ Unsortable' = Unsortable
      /\ \A l : MinPrecision(call, l)' = MinPrecision(call, l)
      /\ \A e : Start(e)' = Start(e) /\ ElemCount(e)' = ElemCount(e)
      /\ \A e, f : Better(e, f)' = Better(e, f)
  BY <1>1, SameCall
<1>3. Visited' = Visited /\ \A e, p : Cost(e, p)' = Cost(e, p)
  BY <1>1, <1>2 DEF Visited, Cost
<1>4. AllocationTypeOK' /\ StartInv' /\ PayloadWithinBudget'
  BY CallKept, <1>1, <1>2 DEF AllocInv, AllocationTypeOK, StartInv, PayloadWithinBudget
<1>5. SpentInv' /\ NoUpgradeLeft' /\ RankInv'
  BY <1>1, <1>2, <1>3 DEF AllocInv, SpentInv, NoUpgradeLeft, RankInv
<1>6. ImportanceRespected'
  BY <1>1, <1>2 DEF AllocInv, ImportanceRespected
<1>7. QED
  BY <1>4, <1>5, <1>6 DEF AllocInv

LEMMA AllocStep == AllocInv /\ [Allocate]_allocation => AllocInv'
BY UniformReturn, FloorStep, BeginUpgrades, UpgradeStep, EndUpgradeStep, MetadataStep,
   AllocStutter DEF Allocate

LEMMA AllocAlways == Spec => []AllocInv
BY AllocInit, AllocStep, PTL DEF Spec

\* allocate assigns every group of every layer one of the four precisions.
THEOREM AllocationType == Spec => []AllocationTypeOK
BY AllocAlways, PTL DEF AllocInv

\* What the upgrades spend never exceeds the budget.
THEOREM UpgradesWithinBudget == Spec => []PayloadWithinBudget
BY AllocAlways, PTL DEF AllocInv

\* The greedy loops end only when no upgrade of any group fits any more.
THEOREM BudgetUsedUp == Spec => []NoUpgradeLeft
BY AllocAlways, PTL DEF AllocInv

\* The more important of two comparable groups is assigned no lower precision.
THEOREM MoreImportantFirst == Spec => []ImportanceRespected
BY AllocAlways, PTL DEF AllocInv
-----------------------------------------------------------------------------
(* The plan of run_prefill_turn around it. *)

\* The loops of allocate are over when it returns, and when it is called.
StageInv ==
  /\ bw \in Bandwidths \cup {0}
  /\ stage \in {"snapshot", "first", "second", "fp16", "abkt"}
  /\ held \subseteq Nat
  /\ stage = "snapshot" => pc = "call"
  /\ Decided => pc = "returned"
  /\ pc \in {"call", "returned"} => todo = {}

\* num_layers is lowered by no more than the layers that are taken out.
CountInv == call.numLayers <= Cardinality(call.layers)

LEMMA BudgetType ==
  ASSUME CallOK, NEW b \in Nat
  PROVE  Budget(call, b) \in Nat /\ Budget(call, b) <= b * MaxTime
<1>1. TotalBytes(call, 4) \in Nat /\ MetadataBytes(call, 4) \in Nat
  BY TotalType, MetadataType DEF Precision, MetadataBytes
<1>2. (TotalBytes(call, 4) + MetadataBytes(call, 4)) * 13 \in Nat
  BY <1>1
<1>3. Int4Floor(call) \in Nat
  BY <1>2 DEF Int4Floor
<1>4. b * TargetTime \in Nat /\ b * MaxTime \in Nat
  BY PlanAssumption
<1>5. QED
  BY <1>3, <1>4 DEF Budget

\* A list of the entries has one element for each.
LEMMA EntriesListed ==
  ASSUME CallOK, NEW entries \in SortedEntries
  PROVE  /\ Len(entries) = Cardinality(Entries) /\ Cardinality(Entries) \in Nat
         /\ DOMAIN entries = 1 .. Len(entries)
         /\ \A i \in DOMAIN entries : entries[i].layer \in call.layers
         /\ \A l \in call.layers : \E i \in DOMAIN entries : entries[i].layer = l
<1>1. IsFiniteSet(Groups) /\ IsFiniteSet(call.layers)
  BY CallFacts, SizesAssumption, FS_Interval DEF Groups
<1>2. IsFiniteSet(Entries) /\ Cardinality(Entries) \in Nat
  BY <1>1, FS_Product, FS_CardinalityType DEF Entries
<1> DEFINE D == 1 .. Cardinality(Entries)
<1>3. PICK order \in SetToSeqs(Entries) :
        entries = [i \in DOMAIN order |-> [layer |-> order[i][1], group |-> order[i][2]]]
  BY DEF SortedEntries
<1>4. order \in [D -> Entries] /\ \A i, j \in D : i # j => order[i] # order[j]
  BY <1>3 DEF SetToSeqs
<1>5. DOMAIN entries = D /\ \A i \in D : entries[i].layer = order[i][1]
  BY <1>3, <1>4
<1>6. Len(entries) = Cardinality(Entries)
  BY <1>2, <1>3, <1>4
<1>7. order \in Injection(D, Entries)
  BY <1>4 DEF Injection, IsInjective
<1>8. order \in Surjection(D, Entries)
  <2>1. Cardinality(D) = Cardinality(Entries)
    BY <1>2, FS_Interval
  <2>2. QED
    BY <1>2, <1>7, <2>1, FS_Injection
<1>9. \A l \in call.layers : \E i \in D : order[i][1] = l
  <2> SUFFICES ASSUME NEW l \in call.layers PROVE \E i \in D : order[i][1] = l
    OBVIOUS
  <2>1. <<l, 0>> \in Entries
    BY SizesAssumption DEF Entries, Groups
  <2>2. PICK i \in D : order[i] = <<l, 0>>
    BY <1>8, <2>1 DEF Surjection
  <2>3. QED
    BY <2>2
<1>10. \A i \in D : order[i][1] \in call.layers
  BY <1>4 DEF Entries
<1>11. DOMAIN entries = 1 .. Len(entries) /\ \A i \in DOMAIN entries : entries[i].layer \in call.layers
  BY <1>5, <1>6, <1>10
<1>12. \A l \in call.layers : \E i \in DOMAIN entries : entries[i].layer = l
  BY <1>5, <1>9
<1>13. QED
  BY <1>2, <1>6, <1>11, <1>12

\* What dropping the first n elements of the list leaves.
LEMMA KeptFacts ==
  ASSUME CallOK, NEW entries \in SortedEntries, NEW n \in 1 .. Len(entries)
  PROVE  LET kept == Drop!Kept(call.layers, entries, n)
         IN  /\ kept \subseteq call.layers /\ IsFiniteSet(kept)
             /\ Cardinality(call.layers) - n <= Cardinality(kept)
             /\ n = Len(entries) => kept = {}
<1> DEFINE dropped == Drop!Dropped(entries)
           gone == {dropped[i] : i \in 1 .. n}
           kept == Drop!Kept(call.layers, entries, n)
<1>1. kept = call.layers \ gone
  BY DEF Drop!Kept
<1>2. n \in Nat /\ IsFiniteSet(1 .. n) /\ Cardinality(1 .. n) = n
  BY FS_Interval, EntriesListed
<1>3. [i \in 1 .. n |-> dropped[i]] \in Surjection(1 .. n, gone)
  BY DEF Surjection
<1>4. IsFiniteSet(gone) /\ Cardinality(gone) <= n /\ Cardinality(gone) \in Nat
  BY <1>2, <1>3, FS_Surjection, FS_CardinalityType
<1>5. IsFiniteSet(call.layers)
  BY CallFacts
<1> HIDE DEF gone, kept
<1>6. Cardinality(kept) = Cardinality(call.layers) - Cardinality(call.layers \cap gone)
  BY <1>1, <1>5, FS_Difference
<1>7. Cardinality(call.layers \cap gone) <= Cardinality(gone)
  BY <1>4, FS_Intersection
<1>8. Cardinality(call.layers \cap gone) \in Nat /\ Cardinality(call.layers) \in Nat
  BY <1>5, FS_Intersection, FS_CardinalityType
<1>9. IsFiniteSet(kept) /\ kept \subseteq call.layers
  BY <1>1, <1>5, FS_Difference
<1>10. ASSUME n = Len(entries) PROVE kept = {}
  <2> SUFFICES ASSUME NEW l \in call.layers PROVE l \in gone
    BY <1>1
  <2>1. PICK i \in 1 .. Len(entries) : entries[i].layer = l
    BY EntriesListed
  <2>2. (Len(entries) - i) + 1 \in 1 .. n /\ (Len(entries) - ((Len(entries) - i) + 1)) + 1 = i
    BY <1>10, <2>1
  <2>3. dropped[(Len(entries) - i) + 1] = l
    <3> DEFINE listed == [j \in DOMAIN entries |-> entries[j].layer]
    <3>1. Len(listed) = Len(entries) /\ listed[i] = l
      BY <2>1, EntriesListed
    <3>2. dropped = [j \in 1 .. Len(listed) |-> listed[(Len(listed) - j) + 1]]
      BY DEF Drop!Dropped, Drop!Reverse
    <3> HIDE DEF listed, dropped
    <3>3. QED
      BY <1>10, <2>2, <3>1, <3>2
  <2>4. QED
    BY <2>2, <2>3 DEF gone
<1>11. QED
  BY <1>2, <1>4, <1>6, <1>7, <1>8, <1>9, <1>10 DEF kept

LEMMA SameCardinality == \A S : Drop!Cardinality(S) = Cardinality(S)
BY DEF Drop!Cardinality, Cardinality, Drop!IsFiniteSet, IsFiniteSet

\* The layers that are shed are counted: no more is announced than is sent.
LEMMA ShedFacts ==
  ASSUME CallOK, CountInv, NEW entries \in SortedEntries, NEW int4Bytes, NEW budget
  PROVE  LET shed == Drop!Shed(call.layers, entries, int4Bytes, budget)
             fit == Drop!Fitting(call.layers, entries, int4Bytes, budget)
         IN  /\ shed.layers \subseteq call.layers /\ IsFiniteSet(shed.layers)
             /\ shed.announced \in Int /\ shed.announced <= Cardinality(shed.layers)
             /\ shed.layers = IF fit = {} THEN call.layers
                              ELSE Drop!Kept(call.layers, entries, Drop!Min(fit))
             /\ fit # {} => Drop!Min(fit) \in fit
<1> DEFINE fit == Drop!Fitting(call.layers, entries, int4Bytes, budget)
           m == Drop!Min(fit)
           kept == Drop!Kept(call.layers, entries, m)
           shed == Drop!Shed(call.layers, entries, int4Bytes, budget)
<1>1. IsFiniteSet(call.layers) /\ Cardinality(call.layers) \in Nat
  BY CallFacts, FS_CardinalityType
<1>2. shed = IF fit = {} THEN [layers |-> call.layers, announced |-> Cardinality(call.layers)]
             ELSE [layers |-> kept, announced |-> Cardinality(call.layers) - m]
  BY SameCardinality DEF Drop!Shed
<1>3. fit \subseteq 1 .. Len(entries) /\ Len(entries) \in Nat
  BY EntriesListed DEF Drop!Fitting
<1>4. CASE fit = {}
  <2> HIDE DEF fit, m, kept, shed
  <2>1. QED
    BY <1>1, <1>2, <1>4 DEF fit, shed
<1>5. CASE fit # {}
  <2>1. m = Min(fit)
    BY DEF Drop!Min, Min
  <2> HIDE DEF m, fit
  <2>2. fit \in SUBSET Nat
    BY <1>3
  <2>3. m \in fit
    BY <1>5, <2>1, <2>2, MinNat
  <2>4. m \in 1 .. Len(entries)
    BY <1>3, <2>3
  <2>5. kept \subseteq call.layers /\ IsFiniteSet(kept) /\ Cardinality(call.layers) - m <= Cardinality(kept)
    BY <2>4, KeptFacts
  <2>6. shed = [layers |-> kept, announced |-> Cardinality(call.layers) - m]
    BY <1>2, <1>5
  <2> HIDE DEF kept, shed
  <2>7. /\ shed.layers \subseteq call.layers /\ IsFiniteSet(shed.layers)
        /\ shed.announced \in Int /\ shed.announced <= Cardinality(shed.layers)
        /\ shed.layers = kept
    BY <1>1, <2>4, <2>5, <2>6
  <2>8. QED
    BY <1>5, <2>3, <2>7 DEF shed, kept, m, fit
<1>6. QED
  BY <1>4, <1>5

PlanInv == AllocInv /\ StageInv /\ CountInv

LEMMA PlanInitInv == PlanInit => PlanInv
<1> SUFFICES ASSUME PlanInit PROVE PlanInv
  OBVIOUS
<1>1. AllocInv
  BY AllocInit DEF PlanInit
<1>2. StageInv
  BY CallsAssumption DEF PlanInit, Init, StageInv, Decided
<1>3. call \in Calls /\ call.numLayers = Cardinality(call.layers) /\ IsFiniteSet(call.layers)
  BY WholeModelAssumption, CallsAssumption DEF PlanInit, Init
<1>4. CountInv
  BY <1>3, FS_CardinalityType DEF CountInv
<1>5. QED
  BY <1>1, <1>2, <1>4 DEF PlanInv

\* allocate is not called before the budget is known, and keeps its arguments.
LEMMA PlanAllocate ==
  ASSUME PlanInv, AllocateStep
  PROVE  PlanInv'
<1>1. AllocInv'
  BY AllocStep DEF PlanInv, AllocateStep
<1>2. call' = call /\ bw' = bw /\ held' = held /\ stage' = stage /\ stage \in {"first", "second"}
  BY DEF AllocateStep, Allocate, AllFP16, StartFloor, AddFloor, FloorFits, StartFromInt2,
         BareInt2, Upgrade, EndUpgrade, AddMetadata, Return
<1>3. pc' \in {"call", "returned"} => todo' = {}
  BY DEF PlanInv, StageInv, AllocateStep, Allocate, AllFP16, StartFloor, AddFloor, FloorFits,
         StartFromInt2, BareInt2, Upgrade, EndUpgrade, AddMetadata, Return
<1>4. StageInv'
  BY <1>2, <1>3 DEF PlanInv, StageInv, Decided
<1>5. QED
  BY <1>1, <1>2, <1>4 DEF PlanInv, CountInv

LEMMA PlanSnapshot ==
  ASSUME PlanInv, TakeSnapshot
  PROVE  PlanInv'
<1>1. /\ bw' \in Bandwidths /\ bw' \in Nat /\ stage = "snapshot" /\ stage' = "first"
      /\ call' = [call EXCEPT !.budget = Budget(call, bw')]
      /\ pc' = pc /\ todo' = todo /\ assign' = assign /\ used' = used /\ feasible' = feasible
      /\ held' = held
  BY PlanAssumption DEF TakeSnapshot
<1>2. CallOK /\ pc = "call" /\ todo = {} /\ AllocationTypeOK
      /\ DOMAIN call = {"layers", "numLayers", "seqLen", "imp", "budget"}
  BY <1>1 DEF PlanInv, StageInv, AllocInv, StartInv, CallOK
<1>3. Budget(call, bw') \in Nat
  BY <1>1, <1>2, BudgetType
<1> DEFINE b == Budget(call, bw')
<1>4. call' = [call EXCEPT !.budget = b]
  BY <1>1
<1> HIDE DEF b
<1>5. /\ call'.layers = call.layers /\ call'.numLayers = call.numLayers
      /\ call'.seqLen = call.seqLen /\ call'.imp = call.imp /\ call'.budget \in Nat
  <2>1. b \in Nat
    BY <1>3 DEF b
  <2>2. QED
    BY <1>2, <1>4, <2>1
<1>6. Entries' = Entries
  BY <1>5 DEF Entries
<1>7. DOMAIN call' = {"layers", "numLayers", "seqLen", "imp", "budget"}
  BY <1>2, <1>4
<1>8. CallOK'
  BY <1>2, <1>5, <1>6, <1>7 DEF CallOK
<1>9. AllocInv'
  BY <1>1, <1>2, <1>6, <1>8 DEF AllocInv, AllocationTypeOK, StartInv, PayloadWithinBudget,
     SpentInv, NoUpgradeLeft, RankInv, ImportanceRespected
<1>10. StageInv' /\ CountInv'
  BY <1>1, <1>2, <1>5 DEF PlanInv, StageInv, CountInv, Decided
<1>11. QED
  BY <1>9, <1>10 DEF PlanInv

LEMMA PlanShed ==
  ASSUME PlanInv, Shed
  PROVE  PlanInv'
<1> DEFINE int4Bytes == [l \in call.layers |-> call.seqLen * PerToken * Bytes(4)]
<1>1. PICK entries \in SortedEntries :
        LET shed == Drop!Shed(call.layers, entries, int4Bytes, call.budget)
        IN call' = [call EXCEPT !.layers = shed.layers, !.numLayers = shed.announced,
                                !.imp = [e \in shed.layers \X Groups |-> call.imp[e]]]
  BY DEF Shed
<1>2. /\ pc = "returned" /\ stage = "first" /\ stage' = "second" /\ bw' = bw /\ pc' = "call"
      /\ held' = held /\ todo' = {} /\ used' = 0 /\ feasible' = TRUE
      /\ assign' = [e \in call'.layers \X Groups |-> 16]
  BY DEF Shed
<1>3. CallOK /\ CountInv /\ StageInv
  BY DEF PlanInv, AllocInv, StartInv
<1>4. /\ DOMAIN call = {"layers", "numLayers", "seqLen", "imp", "budget"}
      /\ call.layers \subseteq Nat /\ call.seqLen \in Nat \ {0} /\ call.budget \in Nat
      /\ call.imp \in [call.layers \X Groups -> 0 .. MaxImportance]
  BY <1>3 DEF CallOK, Entries
<1> DEFINE shed == Drop!Shed(call.layers, entries, int4Bytes, call.budget)
<1>5. /\ shed.layers \subseteq call.layers /\ IsFiniteSet(shed.layers)
      /\ shed.announced \in Int /\ shed.announced <= Cardinality(shed.layers)
  BY <1>3, ShedFacts
<1>6. call' = [call EXCEPT !.layers = shed.layers, !.numLayers = shed.announced,
                           !.imp = [e \in shed.layers \X Groups |-> call.imp[e]]]
  BY <1>1
<1> HIDE DEF shed
<1>7. /\ call'.layers = shed.layers /\ call'.numLayers = shed.announced
      /\ call'.imp = [e \in shed.layers \X Groups |-> call.imp[e]]
      /\ call'.seqLen = call.seqLen /\ call'.budget = call.budget
      /\ DOMAIN call' = {"layers", "numLayers", "seqLen", "imp", "budget"}
  BY <1>4, <1>6
<1>8. Entries' = shed.layers \X Groups /\ Entries' \subseteq call.layers \X Groups
  BY <1>5, <1>7 DEF Entries, Groups
<1>9. CallOK'
  BY <1>4, <1>5, <1>7, <1>8 DEF CallOK
<1>10. AllocationTypeOK'
  BY <1>2, <1>7, <1>8 DEF AllocationTypeOK, Precision
<1>11. AllocInv'
  BY <1>2, <1>9, <1>10 DEF AllocInv, StartInv, PayloadWithinBudget,
     SpentInv, NoUpgradeLeft, RankInv, ImportanceRespected
<1>12. StageInv' /\ CountInv'
  BY <1>2, <1>3, <1>5, <1>7 DEF StageInv, CountInv, Decided
<1>13. QED
  BY <1>11, <1>12 DEF PlanInv

LEMMA PlanKept ==
  ASSUME PlanInv, PlanFP16 \/ PlanABKT \/ UNCHANGED vars
  PROVE  PlanInv'
<1>1. UNCHANGED allocation /\ bw' = bw /\ held' = held
      /\ (stage' = stage \/ (stage' \in {"fp16", "abkt"} /\ pc = "returned"))
  BY DEF PlanFP16, PlanABKT, HavePlan, vars
<1>2. AllocInv'
  BY <1>1, AllocStutter DEF PlanInv
<1>3. StageInv' /\ CountInv'
  BY <1>1 DEF PlanInv, StageInv, CountInv, allocation, Decided
<1>4. QED
  BY <1>2, <1>3 DEF PlanInv

LEMMA PlanAlways == PlanSpec => []PlanInv
<1>1. PlanInv /\ [Next]_vars => PlanInv'
  BY PlanSnapshot, PlanAllocate, PlanShed, PlanKept DEF Next
<1>2. QED
  BY <1>1, PlanInitInv, PTL DEF PlanSpec

\* Types hold through both allocations, and the loops of allocate are not in
\* use before the budget is taken nor after the plan is made.
THEOREM PlanTypes == PlanSpec => []TypeOK
<1>1. PlanInv => TypeOK
  BY DEF PlanInv, AllocInv, StageInv, TypeOK, Decided
<1>2. QED
  BY <1>1, PlanAlways, PTL

\* Both allocations of a turn keep their upgrades within the budget.
THEOREM PlanWithinBudget == PlanSpec => []PayloadWithinBudget
<1>1. PlanInv => PayloadWithinBudget
  BY DEF PlanInv, AllocInv
<1>2. QED
  BY <1>1, PlanAlways, PTL

\* Neither allocation of a turn leaves an upgrade behind that would fit.
THEOREM PlanUsesBudget == PlanSpec => []NoUpgradeLeft
<1>1. PlanInv => NoUpgradeLeft
  BY DEF PlanInv, AllocInv
<1>2. QED
  BY <1>1, PlanAlways, PTL

\* Both allocations of a turn respect the importance of the groups in what
\* they assign.
THEOREM PlanByImportance == PlanSpec => []ImportanceRespected
<1>1. PlanInv => ImportanceRespected
  BY DEF PlanInv, AllocInv
<1>2. QED
  BY <1>1, PlanAlways, PTL

\* Whatever is shed, num_layers never counts a layer that is not sent: the
\* decode node is not left waiting for one.
THEOREM AnnouncedArrive == PlanSpec => []AnnouncedCanArrive
<1>1. PlanInv => AnnouncedCanArrive
  BY DEF PlanInv, CountInv, AnnouncedCanArrive
<1>2. QED
  BY <1>1, PlanAlways, PTL
-----------------------------------------------------------------------------
(* The transfer in time: the size of a layer, and the metadata. *)

\* Layers of one size.
LEMMA Int4TotalOf ==
  ASSUME NEW S, IsFiniteSet(S), NEW k \in Nat, NEW size, \A l \in S : size[l] = k
  PROVE  Drop!Int4Total(S, size) = Cardinality(S) * k
<1> DEFINE Fold(h) == [s \in SUBSET S |->
                         IF s = {} THEN 0
                         ELSE h[s \ {CHOOSE x \in s : TRUE}] + size[CHOOSE x \in s : TRUE]]
           total == [s \in SUBSET S |-> Cardinality(s) * k]
           iter == CHOOSE h : h = Fold(h)
<1>1. ASSUME NEW s \in SUBSET S, s # {}
      PROVE  LET x == CHOOSE x \in s : TRUE
             IN  /\ s \ {x} \in SUBSET S /\ size[x] = k
                 /\ Cardinality(s \ {x}) \in Nat /\ Cardinality(s) = Cardinality(s \ {x}) + 1
  <2> DEFINE x == CHOOSE x \in s : TRUE
  <2>1. x \in s
    BY <1>1
  <2> HIDE DEF x
  <2>2. IsFiniteSet(s) /\ IsFiniteSet(s \ {x}) /\ Cardinality(s \ {x}) = Cardinality(s) - 1
    BY <2>1, FS_Subset, FS_RemoveElement
  <2>3. Cardinality(s) \in Nat /\ Cardinality(s \ {x}) \in Nat
    BY <2>2, FS_CardinalityType
  <2>4. Cardinality(s) = Cardinality(s \ {x}) + 1
    BY <2>2, <2>3
  <2>5. size[x] = k /\ s \ {x} \in SUBSET S
    BY <2>1
  <2>6. QED
    BY <2>3, <2>4, <2>5 DEF x
<1>2. total = Fold(total)
  <2>1. ASSUME NEW s \in SUBSET S
        PROVE  Cardinality(s) * k =
                 IF s = {} THEN 0
                 ELSE total[s \ {CHOOSE x \in s : TRUE}] + size[CHOOSE x \in s : TRUE]
    <3>1. CASE s = {}
      BY <3>1, FS_EmptySet
    <3>2. CASE s # {}
      <4> DEFINE x == CHOOSE x \in s : TRUE
      <4>1. /\ s \ {x} \in SUBSET S /\ size[x] = k
            /\ Cardinality(s \ {x}) \in Nat /\ Cardinality(s) = Cardinality(s \ {x}) + 1
        BY <1>1, <3>2
      <4> HIDE DEF x
      <4>2. (Cardinality(s \ {x}) + 1) * k = Cardinality(s \ {x}) * k + k
        BY <4>1
      <4>3. total[s \ {x}] = Cardinality(s \ {x}) * k
        BY <4>1
      <4>4. Cardinality(s) * k = total[s \ {x}] + size[x]
        BY <4>1, <4>2, <4>3
      <4>5. QED
        BY <3>2, <4>4 DEF x
    <3>3. QED
      BY <3>1, <3>2
  <2>2. QED
    BY <2>1
<1>3. iter = Fold(iter)
  <2> HIDE DEF Fold, total
  <2>1. QED
    BY <1>2
<1>4. Drop!Int4Total(S, size) = iter[S]
  BY DEF Drop!Int4Total, Drop!FoldSet, Drop!MapThenFoldSet
<1> HIDE DEF iter
<1> DEFINE Q == {n \in Nat : \A s \in SUBSET S : Cardinality(s) = n => iter[s] = n * k}
<1>5. 0 \in Q
  <2> SUFFICES ASSUME NEW s \in SUBSET S, Cardinality(s) = 0 PROVE iter[s] = 0
    OBVIOUS
  <2>1. s = {}
    BY FS_Subset, FS_EmptySet
  <2>2. QED
    BY <1>3, <2>1
<1>6. ASSUME NEW n \in Nat, n \in Q PROVE n + 1 \in Q
  <2> SUFFICES ASSUME NEW s \in SUBSET S, Cardinality(s) = n + 1 PROVE iter[s] = (n + 1) * k
    OBVIOUS
  <2>1. s # {}
    BY FS_EmptySet
  <2> DEFINE x == CHOOSE x \in s : TRUE
  <2>2. /\ s \ {x} \in SUBSET S /\ size[x] = k
        /\ Cardinality(s \ {x}) \in Nat /\ Cardinality(s) = Cardinality(s \ {x}) + 1
    BY <1>1, <2>1
  <2>3. iter[s] = iter[s \ {x}] + size[x]
    BY <1>3, <2>1
  <2> HIDE DEF x
  <2>4. iter[s \ {x}] = n * k
    BY <1>6, <2>2
  <2>5. QED
    BY <2>2, <2>3, <2>4
<1>7. IsFiniteSet(S) /\ Cardinality(S) \in Q
  <2> HIDE DEF Q
  <2>1. QED
    BY <1>5, <1>6, Induction, FS_CardinalityType
<1>8. iter[S] = Cardinality(S) * k
  BY <1>7
<1>9. QED
  BY <1>4, <1>8

\* What is left after the shedding fits at INT4: dropping every layer does,
\* so some number of drops is found.
LEMMA ShedFits ==
  ASSUME CallOK, CountInv, NEW entries \in SortedEntries
  PROVE  LET k == call.seqLen * PerToken * Bytes(4)
             shed == Drop!Shed(call.layers, entries, [l \in call.layers |-> k], call.budget)
         IN  k \in Nat /\ Cardinality(shed.layers) * k <= call.budget
<1> DEFINE k == call.seqLen * PerToken * Bytes(4)
           size == [l \in call.layers |-> k]
           shed == Drop!Shed(call.layers, entries, size, call.budget)
           fit == Drop!Fitting(call.layers, entries, size, call.budget)
<1>1. call.budget \in Nat /\ call.seqLen \in Nat /\ PerToken \in Nat /\ Bytes(4) = 2
  BY CallFacts, SizesAssumption, BytesOf
<1>2. k \in Nat
  <2>1. call.seqLen * PerToken \in Nat
    BY <1>1
  <2>2. QED
    BY <1>1, <2>1
<1> HIDE DEF k
<1>3. ASSUME NEW n \in 1 .. Len(entries)
      PROVE  LET kept == Drop!Kept(call.layers, entries, n)
             IN  Drop!Int4Total(kept, size) = Cardinality(kept) * k
  <2> DEFINE kept == Drop!Kept(call.layers, entries, n)
  <2>1. kept \subseteq call.layers /\ IsFiniteSet(kept)
    BY KeptFacts
  <2>2. \A l \in kept : size[l] = k
    BY <2>1
  <2> HIDE DEF kept, size
  <2>3. Drop!Int4Total(kept, size) = Cardinality(kept) * k
    BY <1>2, <2>1, <2>2, Int4TotalOf
  <2>4. QED
    BY <2>3 DEF kept
<1>4. /\ shed.layers \subseteq call.layers /\ IsFiniteSet(shed.layers)
      /\ shed.layers = IF fit = {} THEN call.layers
                       ELSE Drop!Kept(call.layers, entries, Drop!Min(fit))
      /\ fit # {} => Drop!Min(fit) \in fit
  <2> HIDE DEF size
  <2>1. QED
    BY ShedFacts
<1>5. fit = {n \in 1 .. Len(entries) :
               Drop!Int4Total(Drop!Kept(call.layers, entries, n), size) <= call.budget}
  BY DEF Drop!Fitting
<1> HIDE DEF shed, fit, size
<1>6. CASE call.layers = {}
  <2>1. Cardinality(shed.layers) = 0
    BY <1>4, <1>6, FS_EmptySet
  <2>2. QED
    BY <1>1, <1>2, <2>1 DEF k, size, shed
<1>7. CASE call.layers # {}
  <2>1. PICK i \in DOMAIN entries : TRUE
    BY <1>7, EntriesListed
  <2>2. Len(entries) \in 1 .. Len(entries)
    BY <2>1, EntriesListed
  <2>3. Drop!Kept(call.layers, entries, Len(entries)) = {}
    BY <2>2, KeptFacts
  <2>4. Cardinality({}) * k = 0
    BY <1>2, FS_EmptySet
  <2>5. Drop!Int4Total(Drop!Kept(call.layers, entries, Len(entries)), size) <= call.budget
    <3>1. Drop!Int4Total(Drop!Kept(call.layers, entries, Len(entries)), size)
            = Cardinality(Drop!Kept(call.layers, entries, Len(entries))) * k
      BY <1>3, <2>2
    <3>2. QED
      BY <1>1, <2>3, <2>4, <3>1
  <2>6. fit # {}
    BY <1>5, <2>2, <2>5
  <2> DEFINE m == Drop!Min(fit)
  <2>7. m \in fit /\ shed.layers = Drop!Kept(call.layers, entries, m)
    BY <1>4, <2>6
  <2> HIDE DEF m
  <2>8. m \in 1 .. Len(entries) /\ Drop!Int4Total(shed.layers, size) <= call.budget
    BY <1>5, <2>7
  <2>9. Drop!Int4Total(shed.layers, size) = Cardinality(shed.layers) * k
    BY <1>3, <2>7, <2>8
  <2>10. QED
    BY <1>2, <2>8, <2>9 DEF k, size, shed
<1>8. QED
  BY <1>6, <1>7
-----------------------------------------------------------------------------
\* The entries from (l, g) on, in the order of Index, and what their metadata
\* can take.
From(l, g) == {f \in Entries : f[1] > l \/ (f[1] = l /\ f[2] >= g)}

Above(l) == {x \in call.layers : x > l}

LayerMeta == (NumGroups * HeadDim + call.seqLen) * 16

Rest(l, g) ==
  Cardinality(Above(l)) * LayerMeta
    + ((NumGroups - g) * HeadDim + (call.seqLen - (g * call.seqLen) \div NumGroups)) * 16

\* The upgrades left used within the budget, and what is still to be added is
\* at most the metadata of a model in INT2.
MetaInv ==
  pc = "metadata" =>
    \/ todo = {} /\ used <= call.budget + MetadataBytes(call, 2)
    \/ \E l \in call.layers, g \in Groups :
         todo = From(l, g) /\ used + Rest(l, g) <= call.budget + MetadataBytes(call, 2)

\* More than the budget and the metadata is used only when not even INT2 fits,
\* and then layers are shed.
TimeInv ==
  /\ MetaInv
  /\ pc = "returned" => \/ used <= call.budget + MetadataBytes(call, 2)
                        \/ ~feasible /\ TotalBytes(call, 2) > call.budget
  /\ stage # "snapshot" => call.budget <= bw * MaxTime
  /\ stage = "second" => TotalBytes(call, 2) <= call.budget
  /\ stage = "fp16" => used = TotalBytes(call, 16)
  /\ Decided => used <= bw * MaxTime + MetadataBytes(call, 2)

LEMMA MetaTypes ==
  ASSUME CallOK
  PROVE  /\ NumGroups \in Nat \ {0} /\ HeadDim \in Nat /\ call.seqLen \in Nat \ {0}
         /\ LayerMeta \in Nat
         /\ MetadataBytes(call, 2) = Cardinality(call.layers) * LayerMeta
         /\ \A l : Cardinality(Above(l)) \in Nat /\ IsFiniteSet(Above(l)) /\ Above(l) \subseteq call.layers
<1>1. /\ NumGroups \in Nat \ {0} /\ HeadDim \in Nat /\ call.seqLen \in Nat \ {0}
      /\ IsFiniteSet(call.layers)
  BY CallFacts, SizesAssumption
<1>2. NumGroups * HeadDim \in Nat
  BY <1>1
<1>3. LayerMeta \in Nat
  BY <1>1, <1>2 DEF LayerMeta
<1>4. MetadataBytes(call, 2) = Cardinality(call.layers) * LayerMeta
  BY DEF MetadataBytes, LayerMeta
<1>5. \A l : Cardinality(Above(l)) \in Nat /\ IsFiniteSet(Above(l)) /\ Above(l) \subseteq call.layers
  <2> TAKE l
  <2>1. Above(l) \in SUBSET call.layers
    BY DEF Above
  <2>2. QED
    BY <1>1, <2>1, FS_Subset, FS_CardinalityType
<1>6. QED
  BY <1>1, <1>3, <1>4, <1>5

\* Before an entry of a layer is a part of the tokens, after it the rest.
LEMMA RestTypes ==
  ASSUME CallOK, NEW g \in 0 .. NumGroups
  PROVE  (g * call.seqLen) \div NumGroups \in Nat /\ (g * call.seqLen) \div NumGroups <= call.seqLen
<1>1. NumGroups \in Nat \ {0} /\ call.seqLen \in Nat /\ g \in Nat /\ g <= NumGroups
  BY MetaTypes
<1> DEFINE n == call.seqLen
<1> HIDE DEF n
<1>2. n \in Nat /\ g * n \in Nat /\ NumGroups * n \in Nat
  BY <1>1 DEF n
<1>3. g * n <= NumGroups * n
  BY <1>1, <1>2
<1>4. (NumGroups * n) \div NumGroups = n
  BY <1>1, <1>2
<1>5. (g * n) \div NumGroups <= (NumGroups * n) \div NumGroups
  BY <1>1, <1>2, <1>3, DivMonotone
<1>6. (g * n) \div NumGroups \in Nat
  BY <1>1, <1>2
<1>7. QED
  BY <1>4, <1>5, <1>6 DEF n

\* The metadata still to be added falls by that of the entry added.
LEMMA RestNext ==
  ASSUME CallOK, NEW l \in call.layers, NEW g \in Groups
  PROVE  Rest(l, g) = GroupMeta(<<l, g>>)
                        + (IF g + 1 \in Groups THEN Rest(l, g + 1)
                           ELSE Cardinality(Above(l)) * LayerMeta)
<1>1. /\ NumGroups \in Nat \ {0} /\ HeadDim \in Nat /\ call.seqLen \in Nat /\ LayerMeta \in Nat
      /\ Cardinality(Above(l)) \in Nat /\ g \in Nat /\ g + 1 <= NumGroups
  BY MetaTypes DEF Groups
<1> DEFINE above == Cardinality(Above(l)) * LayerMeta
           a == (g * call.seqLen) \div NumGroups
           b == ((g + 1) * call.seqLen) \div NumGroups
           h == (NumGroups - g) * HeadDim
           i == (NumGroups - (g + 1)) * HeadDim
<1>2. above \in Nat /\ a \in Nat /\ b \in Nat
  <2>1. a \in Nat /\ b \in Nat
    BY <1>1, RestTypes
  <2>2. above \in Nat
    BY <1>1
  <2>3. QED
    BY <2>1, <2>2
<1>3. h \in Nat /\ i \in Nat /\ h = i + HeadDim
  <2>1. \A c, d \in Nat : (c + 1) * d = c * d + d /\ c * d \in Nat
    OBVIOUS
  <2>2. NumGroups - (g + 1) \in Nat /\ NumGroups - g = (NumGroups - (g + 1)) + 1
    BY <1>1
  <2>3. QED
    BY <1>1, <2>1, <2>2
<1>4. GroupMeta(<<l, g>>) = (HeadDim + (b - a)) * 16
  BY DEF GroupMeta, GroupSize
<1>5. Rest(l, g) = above + (h + (call.seqLen - a)) * 16
  BY DEF Rest
<1>6. Rest(l, g + 1) = above + (i + (call.seqLen - b)) * 16
  BY DEF Rest
<1>7. ASSUME g + 1 \notin Groups PROVE b = call.seqLen /\ i = 0
  <2>1. g + 1 = NumGroups
    BY <1>1, <1>7 DEF Groups
  <2>2. i = 0
    BY <1>1, <2>1
  <2>3. \A c, d \in Nat : c # 0 => (c * d) \div c = d
    OBVIOUS
  <2>4. b = call.seqLen
    BY <1>1, <2>1, <2>3
  <2>5. QED
    BY <2>2, <2>4
<1> HIDE DEF above, a, b, h, i
<1>8. CASE g + 1 \in Groups
  BY <1>1, <1>2, <1>3, <1>4, <1>5, <1>6, <1>8
<1>9. CASE g + 1 \notin Groups
  <2>1. b = call.seqLen /\ i = 0
    BY <1>7, <1>9
  <2>2. Rest(l, g) = above + GroupMeta(<<l, g>>)
    BY <1>1, <1>2, <1>3, <1>4, <1>5, <2>1
  <2>3. GroupMeta(<<l, g>>) \in Int
    BY <1>1, <1>2, <1>4
  <2>4. QED
    BY <1>2, <1>9, <2>2, <2>3 DEF above
<1>10. QED
  BY <1>8, <1>9

\* A layer that is begun has all of its metadata ahead of it.
LEMMA RestLayer ==
  ASSUME CallOK, NEW S \in SUBSET call.layers, S # {}, NEW l \in S, \A x \in S : l <= x,
         \A x \in call.layers : x > l => x \in S
  PROVE  /\ Rest(l, 0) = Cardinality(S) * LayerMeta
         /\ From(l, 0) = S \X Groups
<1>1. /\ NumGroups \in Nat \ {0} /\ HeadDim \in Nat /\ call.seqLen \in Nat \ {0} /\ LayerMeta \in Nat
      /\ Cardinality(Above(l)) \in Nat /\ call.layers \subseteq Nat /\ IsFiniteSet(call.layers)
  BY MetaTypes, CallFacts
<1>2. Above(l) = S \ {l} /\ IsFiniteSet(S)
  BY <1>1, FS_Subset DEF Above
<1>3. Cardinality(S) = Cardinality(Above(l)) + 1
  <2>1. Cardinality(S \ {l}) = Cardinality(S) - 1 /\ Cardinality(S) \in Nat
    BY <1>2, FS_RemoveElement, FS_CardinalityType
  <2>2. QED
    BY <1>2, <2>1
<1>4. Rest(l, 0) = Cardinality(Above(l)) * LayerMeta + LayerMeta
  <2>1. (0 * call.seqLen) \div NumGroups = 0 /\ NumGroups - 0 = NumGroups /\ call.seqLen - 0 = call.seqLen
    BY <1>1
  <2>2. QED
    BY <2>1 DEF Rest, LayerMeta
<1>5. \A c, d \in Nat : (c + 1) * d = c * d + d
  OBVIOUS
<1>6. Rest(l, 0) = Cardinality(S) * LayerMeta
  BY <1>1, <1>3, <1>4, <1>5
<1>7. From(l, 0) = S \X Groups
  <2>1. ASSUME NEW f \in Entries
        PROVE  (f[1] > l \/ (f[1] = l /\ f[2] >= 0)) <=> f[1] \in S
    <3>1. f[1] \in call.layers /\ f[1] \in Nat /\ f[2] \in Nat /\ l \in Nat
      BY <1>1 DEF Entries, Groups
    <3>2. QED
      BY <3>1
  <2>2. \A f : f \in S \X Groups <=> f \in Entries /\ f[1] \in S
    BY DEF Entries
  <2>3. QED
    BY <2>1, <2>2 DEF From
<1>8. QED
  BY <1>6, <1>7

\* The least entry from (l, g) on is (l, g), and what follows it begins with
\* the next group or with the next layer.
LEMMA FromNext ==
  ASSUME CallOK, NEW l \in call.layers, NEW g \in Groups,
         NEW e \in From(l, g), \A f \in From(l, g) : Index(e) <= Index(f)
  PROVE  /\ e = <<l, g>>
         /\ From(l, g) \ {e} = IF g + 1 \in Groups THEN From(l, g + 1) ELSE Above(l) \X Groups
<1>1. NumGroups \in Nat \ {0} /\ call.layers \subseteq Nat /\ l \in Nat /\ g \in Nat /\ g < NumGroups
  BY MetaTypes, CallFacts DEF Groups
<1>2. \A f \in Entries : f = <<f[1], f[2]>> /\ f[1] \in call.layers /\ f[1] \in Nat /\ f[2] \in Nat /\ f[2] < NumGroups
  BY <1>1 DEF Entries, Groups
<1>3. <<l, g>> \in From(l, g)
  BY <1>1 DEF From, Entries
<1>4. Index(e) <= Index(<<l, g>>) /\ e \in Entries
  BY <1>3 DEF From
<1>5. e[1] * NumGroups + e[2] <= l * NumGroups + g
  BY <1>4 DEF Index
<1>6. ~(e[1] > l)
  <2> SUFFICES ASSUME e[1] > l PROVE FALSE
    OBVIOUS
  <2>1. \A a, b, n \in Nat : a > b => a * n >= b * n + n /\ a * n \in Nat /\ b * n \in Nat
    <3> TAKE a, b, n \in Nat
    <3> SUFFICES ASSUME a > b PROVE a * n >= b * n + n /\ a * n \in Nat /\ b * n \in Nat
      OBVIOUS
    <3>1. PICK d \in Nat : a = b + 1 + d
      <4>1. a - b - 1 \in Nat /\ a = b + 1 + (a - b - 1)
        OBVIOUS
      <4>2. QED
        BY <4>1
    <3>2. a * n = b * n + n + d * n
      BY <3>1
    <3>3. d * n \in Nat /\ b * n \in Nat
      BY <3>1
    <3>4. QED
      BY <3>2, <3>3
  <2>2. e[1] * NumGroups >= l * NumGroups + NumGroups /\ e[1] * NumGroups \in Nat /\ l * NumGroups \in Nat
    BY <1>1, <1>2, <1>4, <2>1
  <2>3. e[2] \in Nat
    BY <1>2, <1>4
  <2>4. QED
    BY <1>1, <1>5, <2>2, <2>3
<1>7. e[1] = l /\ e[2] >= g
  BY <1>1, <1>6 DEF From
<1>8. e[2] <= g
  <2>1. l * NumGroups \in Nat /\ e[2] \in Nat
    BY <1>1, <1>2, <1>4
  <2>2. QED
    BY <1>1, <1>5, <1>7, <2>1
<1>9. e[2] = g
  BY <1>1, <1>2, <1>4, <1>7, <1>8
<1>10. e = <<l, g>>
  BY <1>2, <1>4, <1>7, <1>9
<1>11. From(l, g) \ {e} = IF g + 1 \in Groups THEN From(l, g + 1) ELSE Above(l) \X Groups
  <2>1. ASSUME NEW f \in Entries
        PROVE  /\ f # e <=> (f[1] # l \/ f[2] # g)
               /\ (f[1] > l \/ (f[1] = l /\ f[2] >= g)) /\ (f[1] # l \/ f[2] # g)
                    <=> f[1] > l \/ (f[1] = l /\ f[2] >= g + 1)
               /\ g + 1 \notin Groups => ~(f[2] >= g + 1)
    <3>1. f[1] \in Nat /\ f[2] \in Nat /\ f[2] < NumGroups /\ f = <<f[1], f[2]>>
      BY <1>2
    <3>2. f # e <=> (f[1] # l \/ f[2] # g)
      BY <1>10, <3>1
    <3>3. (f[1] > l \/ (f[1] = l /\ f[2] >= g)) /\ (f[1] # l \/ f[2] # g)
            <=> f[1] > l \/ (f[1] = l /\ f[2] >= g + 1)
      BY <1>1, <3>1
    <3>4. g + 1 \notin Groups => ~(f[2] >= g + 1)
      BY <1>1, <3>1 DEF Groups
    <3>5. QED
      BY <3>2, <3>3, <3>4
  <2>2. From(l, g) \ {e} = {f \in Entries : f[1] > l \/ (f[1] = l /\ f[2] >= g + 1)}
    BY <2>1 DEF From
  <2>3. CASE g + 1 \in Groups
    BY <2>2, <2>3 DEF From
  <2>4. CASE g + 1 \notin Groups
    <3>1. From(l, g) \ {e} = {f \in Entries : f[1] > l}
      BY <2>1, <2>2, <2>4
    <3>2. {f \in Entries : f[1] > l} = Above(l) \X Groups
      BY DEF Entries, Above
    <3>3. QED
      BY <2>4, <3>1, <3>2
  <2>5. QED
    BY <2>3, <2>4
<1>12. QED
  BY <1>10, <1>11

\* The metadata of all layers is ahead when the upgrades end.
LEMMA MetaBegin ==
  ASSUME AllocInv, EndUpgrade
  PROVE  MetaInv'
<1>1. /\ pc = "upgrade" /\ pc' = "metadata" /\ todo' = Entries /\ call' = call
      /\ used' = used /\ used <= call.budget /\ used \in Nat /\ CallOK /\ call.budget \in Nat
  BY CallFacts DEF EndUpgrade, AllocInv, PayloadWithinBudget, AllocationTypeOK, StartInv
<1>2. MetadataBytes(call, 2) \in Nat
  BY <1>1, MetadataType
<1>3. CASE call.layers = {}
  <2>1. todo' = {} /\ used' <= call.budget + MetadataBytes(call, 2)
    BY <1>1, <1>2, <1>3 DEF Entries
  <2>2. QED
    BY <1>1, <2>1 DEF MetaInv
<1>4. CASE call.layers # {}
  <2>1. call.layers \in SUBSET Nat
    BY <1>1, CallFacts
  <2>2. PICK l \in call.layers : \A x \in call.layers : l <= x
    BY <1>4, <2>1, LeastElement
  <2>3. Rest(l, 0) = MetadataBytes(call, 2) /\ From(l, 0) = Entries
    BY <1>1, <1>4, <2>2, RestLayer, MetaTypes DEF Entries
  <2>4. 0 \in Groups
    BY SizesAssumption DEF Groups
  <2>5. todo' = From(l, 0) /\ used' + Rest(l, 0) <= call.budget + MetadataBytes(call, 2)
    BY <1>1, <1>2, <2>3
  <2>6. Rest(l, 0)' = Rest(l, 0) /\ From(l, 0)' = From(l, 0) /\ MetadataBytes(call, 2)' = MetadataBytes(call, 2)
    BY <1>1 DEF Rest, From, Above, LayerMeta, Entries, MetadataBytes
  <2>7. QED
    BY <1>1, <2>4, <2>5, <2>6 DEF MetaInv
<1>5. QED
  BY <1>3, <1>4

LEMMA MetaAdded ==
  ASSUME AllocInv, MetaInv, AddMetadata
  PROVE  MetaInv'
<1>1. /\ pc = "metadata" /\ call' = call /\ CallOK /\ used \in Nat /\ call.budget \in Nat
      /\ MetadataBytes(call, 2) \in Nat /\ todo \subseteq Entries
  BY CallFacts, MetadataType DEF AddMetadata, AllocInv, AllocationTypeOK, StartInv
<1>2. PICK e \in todo : /\ \A f \in todo : Index(e) <= Index(f)
                        /\ used' = used + (IF assign[e] <= 4 THEN GroupMeta(e) ELSE 0)
                        /\ todo' = todo \ {e}
  BY DEF AddMetadata
<1>3. PICK l \in call.layers, g \in Groups :
        todo = From(l, g) /\ used + Rest(l, g) <= call.budget + MetadataBytes(call, 2)
  BY <1>1, <1>2 DEF MetaInv
<1>4. e = <<l, g>> /\ todo' = IF g + 1 \in Groups THEN From(l, g + 1) ELSE Above(l) \X Groups
  BY <1>1, <1>2, <1>3, FromNext
<1>5. GroupMeta(e) \in Nat
  BY <1>1, <1>2, GroupMetaType
<1>6. used' \in Nat /\ used' <= used + GroupMeta(e)
  BY <1>1, <1>2, <1>5
<1> DEFINE rest == IF g + 1 \in Groups THEN Rest(l, g + 1) ELSE Cardinality(Above(l)) * LayerMeta
<1>7. Rest(l, g) = GroupMeta(e) + rest
  BY <1>1, <1>4, RestNext
<1>8. Cardinality(Above(l)) * LayerMeta \in Nat /\ LayerMeta \in Nat
  <2>1. Cardinality(Above(l)) \in Nat /\ LayerMeta \in Nat
    BY <1>1, MetaTypes
  <2>2. QED
    BY <2>1
<1>9. \A k \in 0 .. NumGroups : Rest(l, k) \in Nat
  <2> TAKE k \in 0 .. NumGroups
  <2>1. /\ HeadDim \in Nat /\ NumGroups - k \in Nat /\ call.seqLen \in Nat
    BY <1>1, MetaTypes
  <2>2. call.seqLen - (k * call.seqLen) \div NumGroups \in Nat
    BY <1>1, <2>1, RestTypes
  <2>3. (NumGroups - k) * HeadDim \in Nat
    BY <2>1
  <2>4. QED
    BY <1>8, <2>2, <2>3 DEF Rest
<1>10. rest \in Nat
  BY <1>8, <1>9, SizesAssumption DEF Groups
<1> HIDE DEF rest
<1>11. used' + rest <= call.budget + MetadataBytes(call, 2)
  BY <1>1, <1>3, <1>5, <1>6, <1>7, <1>10
<1>12. /\ \A k : Rest(l, k)' = Rest(l, k) /\ From(l, k)' = From(l, k)
       /\ MetadataBytes(call, 2)' = MetadataBytes(call, 2) /\ pc' = "metadata"
  BY <1>1 DEF Rest, From, Above, LayerMeta, Entries, MetadataBytes, AddMetadata
<1>13. CASE g + 1 \in Groups
  <2>1. todo' = From(l, g + 1) /\ used' + Rest(l, g + 1) <= call.budget + MetadataBytes(call, 2)
    BY <1>4, <1>11, <1>13 DEF rest
  <2>2. QED
    BY <1>1, <1>12, <1>13, <2>1 DEF MetaInv
<1>14. CASE g + 1 \notin Groups /\ Above(l) = {}
  <2>1. todo' = {}
    BY <1>4, <1>14
  <2>2. used' <= call.budget + MetadataBytes(call, 2)
    BY <1>1, <1>6, <1>10, <1>11
  <2>3. QED
    BY <1>1, <1>12, <2>1, <2>2 DEF MetaInv
<1>15. CASE g + 1 \notin Groups /\ Above(l) # {}
  <2>1. Above(l) \in SUBSET call.layers /\ Above(l) \in SUBSET Nat
    BY <1>1, CallFacts DEF Above
  <2>2. PICK m \in Above(l) : \A x \in Above(l) : m <= x
    BY <1>15, <2>1, LeastElement
  <2>3. m \in call.layers /\ m > l /\ m \in Nat /\ l \in Nat /\ call.layers \subseteq Nat
    BY <1>1, <2>1, <2>2, CallFacts DEF Above
  <2>4. \A x \in call.layers : x > m => x \in Above(l)
    BY <2>3 DEF Above
  <2>5. Rest(m, 0) = Cardinality(Above(l)) * LayerMeta /\ From(m, 0) = Above(l) \X Groups
    BY <1>1, <1>15, <2>1, <2>2, <2>4, RestLayer
  <2>6. todo' = From(m, 0) /\ used' + Rest(m, 0) <= call.budget + MetadataBytes(call, 2)
    BY <1>4, <1>11, <1>15, <2>5 DEF rest
  <2>7. 0 \in Groups
    BY SizesAssumption DEF Groups
  <2>8. Rest(m, 0)' = Rest(m, 0) /\ From(m, 0)' = From(m, 0)
    BY <1>1 DEF Rest, From, Above, LayerMeta, Entries
  <2>9. QED
    BY <1>1, <1>12, <2>3, <2>6, <2>7, <2>8 DEF MetaInv
<1>16. QED
  BY <1>13, <1>14, <1>15

TimedInv == PlanInv /\ TimeInv

LEMMA TimedInit == PlanInit => TimedInv
<1> SUFFICES ASSUME PlanInit PROVE TimedInv
  OBVIOUS
<1>1. PlanInv
  BY PlanInitInv
<1>2. stage = "snapshot" /\ pc = "call"
  BY DEF PlanInit, Init
<1>3. QED
  BY <1>1, <1>2 DEF TimedInv, TimeInv, MetaInv, Decided

\* Each loop of allocate spends within the budget; the metadata comes on top.
LEMMA TimedAllocate ==
  ASSUME TimedInv, AllocateStep
  PROVE  TimedInv'
<1>1. /\ PlanInv /\ TimeInv /\ AllocInv /\ CallOK /\ Allocate /\ call.budget \in Nat /\ used \in Nat
      /\ MetadataBytes(call, 2) \in Nat
  BY CallFacts, MetadataType
     DEF TimedInv, PlanInv, AllocInv, StartInv, AllocateStep, AllocationTypeOK
<1>2. PlanInv'
  BY <1>1, PlanAllocate
<1>3. call' = call /\ bw' = bw /\ stage' = stage /\ stage \in {"first", "second"}
  BY DEF AllocateStep, Allocate, AllFP16, StartFloor, AddFloor, FloorFits, StartFromInt2,
         BareInt2, Upgrade, EndUpgrade, AddMetadata, Return
<1>4. /\ MetadataBytes(call, 2)' = MetadataBytes(call, 2)
      /\ \A p : TotalBytes(call, p)' = TotalBytes(call, p)
  BY <1>3 DEF MetadataBytes, TotalBytes, Bytes
<1>5. MetaInv'
  <2>1. CASE EndUpgrade
    BY <1>1, <2>1, MetaBegin
  <2>2. CASE AddMetadata
    BY <1>1, <2>2, MetaAdded DEF TimeInv
  <2>3. CASE AllFP16 \/ StartFloor \/ AddFloor \/ FloorFits \/ StartFromInt2 \/ BareInt2 \/ Upgrade
             \/ Return
    <3>1. pc' # "metadata"
      BY <2>3 DEF AllFP16, StartFloor, AddFloor, FloorFits, StartFromInt2, BareInt2, Upgrade, Return
    <3>2. QED
      BY <3>1 DEF MetaInv
  <2>4. QED
    BY <1>1, <2>1, <2>2, <2>3 DEF Allocate
<1>6. pc' = "returned" => \/ used' <= call.budget + MetadataBytes(call, 2)
                          \/ ~feasible' /\ TotalBytes(call, 2) > call.budget
  <2>1. CASE AllFP16
    <3>1. used' <= call.budget /\ used' \in Nat
      BY <1>1, <2>1, TotalType DEF AllFP16, Precision
    <3>2. QED
      BY <1>1, <3>1
  <2>2. CASE BareInt2
    BY <2>2 DEF BareInt2
  <2>3. CASE Return
    <3>1. pc = "metadata" /\ todo = {} /\ used' = used /\ MetaInv
      BY <1>1, <2>3 DEF Return, TimeInv
    <3>2. \A l \in call.layers, g \in Groups : <<l, g>> \in From(l, g)
      <4> TAKE l \in call.layers, g \in Groups
      <4>1. l \in Nat /\ g \in Nat
        BY <1>1, CallFacts, SizesAssumption DEF Groups
      <4>2. QED
        BY <4>1 DEF From, Entries
    <3>3. \A l \in call.layers, g \in Groups : todo # From(l, g)
      BY <3>1, <3>2
    <3>4. QED
      BY <3>1, <3>3 DEF MetaInv
  <2>4. CASE StartFloor \/ AddFloor \/ FloorFits \/ StartFromInt2 \/ Upgrade \/ EndUpgrade \/ AddMetadata
    BY <2>4 DEF StartFloor, AddFloor, FloorFits, StartFromInt2, Upgrade, EndUpgrade, AddMetadata
  <2>5. QED
    BY <1>1, <2>1, <2>2, <2>3, <2>4 DEF Allocate
<1>7. TimeInv'
  BY <1>1, <1>3, <1>4, <1>5, <1>6 DEF TimeInv, Decided
<1>8. QED
  BY <1>2, <1>7 DEF TimedInv

LEMMA TimedSnapshot ==
  ASSUME TimedInv, TakeSnapshot
  PROVE  TimedInv'
<1>1. PlanInv' /\ PlanInv
  BY PlanSnapshot DEF TimedInv
<1>2. stage = "snapshot" /\ stage' = "first" /\ bw' \in Nat /\ pc' = pc
      /\ call' = [call EXCEPT !.budget = Budget(call, bw')]
  BY PlanAssumption DEF TakeSnapshot
<1>3. pc = "call" /\ CallOK /\ "budget" \in DOMAIN call
  BY <1>1, <1>2 DEF PlanInv, StageInv, AllocInv, StartInv, CallOK
<1>4. Budget(call, bw') \in Nat /\ Budget(call, bw') <= bw' * MaxTime
  BY <1>2, <1>3, BudgetType
<1>5. call'.budget = Budget(call, bw')
  BY <1>2, <1>3
<1>6. QED
  BY <1>1, <1>2, <1>3, <1>4, <1>5 DEF TimedInv, TimeInv, MetaInv, Decided

\* What is left when layers have been shed fits at INT2 all the more.
LEMMA TimedShed ==
  ASSUME TimedInv, Shed
  PROVE  TimedInv'
<1>1. PlanInv' /\ PlanInv /\ TimeInv /\ CallOK /\ CountInv
  BY PlanShed DEF TimedInv, PlanInv, AllocInv, StartInv
<1>2. stage = "first" /\ stage' = "second" /\ bw' = bw /\ pc' = "call"
  BY DEF Shed
<1> DEFINE k == call.seqLen * PerToken * Bytes(4)
<1>3. PICK entries \in SortedEntries :
        LET shed == Drop!Shed(call.layers, entries, [l \in call.layers |-> k], call.budget)
        IN call' = [call EXCEPT !.layers = shed.layers, !.numLayers = shed.announced,
                                !.imp = [e \in shed.layers \X Groups |-> call.imp[e]]]
  BY DEF Shed
<1> DEFINE shed == Drop!Shed(call.layers, entries, [l \in call.layers |-> k], call.budget)
<1>4. k \in Nat /\ Cardinality(shed.layers) * k <= call.budget
  BY <1>1, ShedFits
<1>5. IsFiniteSet(shed.layers) /\ Cardinality(shed.layers) \in Nat
  BY <1>1, ShedFacts, FS_CardinalityType
<1>6. call' = [call EXCEPT !.layers = shed.layers, !.numLayers = shed.announced,
                           !.imp = [e \in shed.layers \X Groups |-> call.imp[e]]]
  BY <1>3
<1> HIDE DEF shed
<1>7. call'.layers = shed.layers /\ call'.seqLen = call.seqLen /\ call'.budget = call.budget
  BY <1>1, <1>6 DEF CallOK
<1> DEFINE c == Cardinality(shed.layers)
           n == call.seqLen
<1>8. c \in Nat /\ n \in Nat /\ PerToken \in Nat /\ call.budget \in Nat
  BY <1>1, <1>5, CallFacts, SizesAssumption
<1>9. TotalBytes(call, 2)' = c * n * PerToken * Bytes(2)
  BY <1>7 DEF TotalBytes, Bytes
<1>10. c * (n * PerToken * Bytes(4)) <= call.budget
  BY <1>4
<1> HIDE DEF c, n
<1>11. c * n * PerToken * Bytes(2) <= c * (n * PerToken * Bytes(4))
  <2>1. Bytes(2) = 1 /\ Bytes(4) = 2
    BY BytesOf
  <2>2. n * PerToken \in Nat
    BY <1>8
  <2>3. c * n * PerToken = c * (n * PerToken)
    BY <1>8
  <2>4. \A x, y \in Nat : x * y * 1 <= x * (y * 2) /\ x * y \in Nat
    <3> TAKE x, y \in Nat
    <3>1. x * y \in Nat /\ x * (y * 2) = (x * y) * 2
      OBVIOUS
    <3>2. QED
      BY <3>1
  <2>5. QED
    BY <1>8, <2>1, <2>2, <2>3, <2>4
<1>12. (TotalBytes(call, 2) <= call.budget)'
  <2>1. c * n * PerToken * Bytes(2) \in Nat
    <3>1. c * n \in Nat
      BY <1>8
    <3>2. c * n * PerToken \in Nat
      BY <1>8, <3>1
    <3>3. QED
      BY <3>2, BytesOf
  <2>2. c * (n * PerToken * Bytes(4)) \in Nat
    BY <1>4, <1>8 DEF c, n
  <2>3. QED
    BY <1>7, <1>8, <1>9, <1>10, <1>11, <2>1, <2>2
<1>13. (call.budget <= bw * MaxTime)'
  BY <1>1, <1>2, <1>7 DEF TimeInv
<1>14. QED
  BY <1>1, <1>2, <1>12, <1>13 DEF TimedInv, TimeInv, MetaInv, Decided

\* The plan that is made is within the cap, metadata aside, on either path.
LEMMA TimedPlanned ==
  ASSUME TimedInv, PlanFP16 \/ PlanABKT
  PROVE  TimedInv'
<1>1. PlanInv' /\ TimeInv /\ CallOK
  BY PlanKept DEF TimedInv, PlanInv, AllocInv, StartInv
<1>2. /\ pc = "returned" /\ (stage = "first" => feasible) /\ stage \in {"first", "second"}
      /\ stage' \in {"fp16", "abkt"} /\ (stage' = "fp16" => used = TotalBytes(call, 16))
      /\ bw' = bw /\ call' = call /\ pc' = pc /\ todo' = todo
      /\ used' = used /\ feasible' = feasible
  BY DEF PlanFP16, PlanABKT, HavePlan, FullSize, allocation
<1>3. used \in Nat /\ call.budget \in Nat /\ MetadataBytes(call, 2) \in Nat /\ bw \in Nat
      /\ TotalBytes(call, 2) \in Nat
  BY <1>1, CallFacts, MetadataType, TotalType, PlanAssumption
     DEF TimedInv, PlanInv, AllocInv, AllocationTypeOK, StageInv, Precision
<1>4. used <= call.budget + MetadataBytes(call, 2) /\ call.budget <= bw * MaxTime
  BY <1>1, <1>2, <1>3 DEF TimeInv
<1>5. bw * MaxTime \in Nat
  BY <1>3, PlanAssumption
<1>6. used <= bw * MaxTime + MetadataBytes(call, 2)
  BY <1>3, <1>4, <1>5
<1>7. /\ MetadataBytes(call, 2)' = MetadataBytes(call, 2)
      /\ \A p : TotalBytes(call, p)' = TotalBytes(call, p)
  BY <1>2 DEF MetadataBytes, TotalBytes, Bytes
<1>8. TimeInv'
  BY <1>1, <1>2, <1>6, <1>7 DEF TimeInv, MetaInv, Decided
<1>9. QED
  BY <1>1, <1>8 DEF TimedInv

LEMMA TimedStutter ==
  ASSUME TimedInv, UNCHANGED vars
  PROVE  TimedInv'
<1>1. PlanInv'
  BY PlanKept DEF TimedInv
<1>2. /\ bw' = bw /\ stage' = stage /\ call' = call /\ pc' = pc /\ todo' = todo
      /\ used' = used /\ feasible' = feasible
  BY DEF vars, allocation
<1>3. MetaInv'
  BY <1>2 DEF TimedInv, TimeInv, MetaInv, Rest, From, Above, LayerMeta, Entries, MetadataBytes
<1>4. TimeInv'
  BY <1>2, <1>3 DEF TimedInv, TimeInv, MetadataBytes, TotalBytes, Bytes, Decided
<1>5. QED
  BY <1>1, <1>4 DEF TimedInv

LEMMA TimedAlways == PlanSpec => []TimedInv
<1>1. TimedInv /\ [Next]_vars => TimedInv'
  BY TimedSnapshot, TimedAllocate, TimedShed, TimedPlanned, TimedStutter DEF Next
<1>2. QED
  BY <1>1, TimedInit, PTL DEF PlanSpec

\* Whatever the quality floor, the allocations and the shedding do, what is
\* sent takes no longer than MAX_TRANSFER_TIME, at the sizes the allocator
\* reckons with and metadata aside, unless layers were shed and the FP16 path
\* sends them all the same.
THEOREM PlanInTime == PlanSpec => []TransferTimeCapped
<1>1. TimedInv => TransferTimeCapped
  <2> SUFFICES ASSUME TimedInv, stage = "abkt" \/ (stage = "fp16" /\ call.layers = held)
               PROVE  SafetyCap
    BY DEF TransferTimeCapped
  <2>1. used <= bw * MaxTime + MetadataBytes(call, 2)
    BY DEF TimedInv, TimeInv, Decided
  <2>2. CASE stage = "abkt"
    BY <2>1, <2>2 DEF SafetyCap, PlannedBytes
  <2>3. CASE stage = "fp16" /\ call.layers = held
    <3>1. FP16Bytes = TotalBytes(call, 16)
      BY <2>3 DEF FP16Bytes, TotalBytes
    <3>2. used = TotalBytes(call, 16)
      BY <2>3 DEF TimedInv, TimeInv
    <3>3. QED
      BY <2>1, <2>3, <3>1, <3>2 DEF SafetyCap, PlannedBytes
  <2>4. QED
    BY <2>2, <2>3
<1>2. QED
  BY <1>1, TimedAlways, PTL
=============================================================================
