------------------------- MODULE PrecisionAllocator -------------------------
(***************************************************************************)
(* PrecisionAllocator.allocate: which precision each group of tokens of    *)
(* each layer is sent in, under a budget of bytes.  One step is one        *)
(* iteration of the loops of the method, over the entries (layer, group).  *)
(*                                                                         *)
(* Sizes are counted in quarters of a byte, the size of an INT2 element,   *)
(* so that every precision costs a whole number.  An importance is a rank. *)
(***************************************************************************)
EXTENDS Integers, FiniteSets

CONSTANTS
  NumGroups,      \* NUM_GROUPS
  PerToken,       \* elements of K and V per token of a layer
  HeadDim,        \* k.shape[3]
  MaxImportance,  \* bound: number of ranks of importance
  Calls           \* the arguments allocate may be called with

Precision == {16, 8, 4, 2}
Groups == 0 .. NumGroups - 1

ASSUME SizesAssumption == /\ NumGroups \in Nat \ {0} /\ PerToken \in Nat
                          /\ HeadDim \in Nat /\ MaxImportance \in Nat
ASSUME CallsAssumption ==
  \A c \in Calls : /\ DOMAIN c = {"layers", "numLayers", "seqLen", "imp", "budget"}
                   /\ c.layers \subseteq Nat /\ IsFiniteSet(c.layers)
                   /\ c.numLayers \in Int /\ c.seqLen \in Nat \ {0}
                   /\ c.imp \in [c.layers \X Groups -> 0 .. MaxImportance]
                   /\ c.budget \in Nat

VARIABLES
  call,     \* the arguments
  pc,       \* the loop allocate is in
  todo,     \* the entries that loop has still to visit
  assign,   \* assignments: (layer, group) -> precision
  used,     \* current_bytes (min_floor in the first loop)
  feasible  \* AllocationResult.feasible

allocation == <<call, pc, todo, assign, used, feasible>>

Entries == call.layers \X Groups
Uniform(p) == [e \in Entries |-> p]
-----------------------------------------------------------------------------
(* Sizes. *)

Bytes(p) == p \div 2

GroupSize(n, g) == ((g + 1) * n) \div NumGroups - (g * n) \div NumGroups

ElemCount(e) == GroupSize(call.seqLen, e[2]) * PerToken

TotalBytes(c, p) == Cardinality(c.layers) * c.seqLen * PerToken * Bytes(p)

\* Scales and zero points of one group at INT4 or INT2.
GroupMeta(e) == (HeadDim + GroupSize(call.seqLen, e[2])) * 16

\* metadata_bytes: the group sizes of a layer add up to its length.
MetadataBytes(c, p) ==
  Cardinality(c.layers) * (CASE p = 16 -> 0
                             [] p = 8  -> 32
                             [] OTHER  -> (NumGroups * HeadDim + c.seqLen) * 16)

\* _min_precision_for_layer: total_fp16 / max(budget, 1 byte) against 8 and 4
\* decides where the INT8 and the INT4 part of the model end.
Compressed(c, ratio) ==
  TotalBytes(c, 16) > ratio * (IF c.budget < 4 THEN 4 ELSE c.budget)

MinPrecision(c, l) ==
  LET n == c.numLayers
      in8 == IF Compressed(c, 8) THEN 6 * l < n
             ELSE IF Compressed(c, 4) THEN 4 * l < n ELSE 3 * l < n
      in4 == IF Compressed(c, 4) THEN 2 * l < n ELSE 3 * l < 2 * n
  IN IF n <= 0 \/ in8 THEN 8 ELSE IF in4 THEN 4 ELSE 2
-----------------------------------------------------------------------------
(* The order of the upgrades. *)

\* 1 - QUALITY_FIDELITY, in thousandths.
QualityLoss(p) == CASE p = 16 -> 0 [] p = 8 -> 1 [] p = 4 -> 10 [] OTHER -> 150

\* The mean over a group without tokens is NaN; what sort does with it is
\* not specified.
Unsortable == \E g \in Groups : GroupSize(call.seqLen, g) = 0

\* _upgrade_benefit on the floor; the loop that starts from INT2 goes by the
\* importance alone.
Benefit(e) == IF feasible
              THEN call.imp[e] * QualityLoss(MinPrecision(call, e[1]))
              ELSE call.imp[e]

Index(e) == e[1] * NumGroups + e[2]

\* Both sorts are stable, and entries is sorted by importance first.
Before(e, f) ==
  \/ Benefit(e) > Benefit(f)
  \/ /\ Benefit(e) = Benefit(f)
     /\ \/ call.imp[e] > call.imp[f]
        \/ call.imp[e] = call.imp[f] /\ Index(e) < Index(f)

\* Mutant: any entry may be next.
NextUpAny(e) == e \in todo

NextUp(e) == e \in todo /\ (Unsortable \/ \A f \in todo \ {e} : Before(e, f))

\* The precisions the inner loop climbs through: a higher one costs more, so
\* the highest affordable one is where it stops.
Cost(e, p) == (Bytes(p) - Bytes(assign[e])) * ElemCount(e)

\* Mutant: what other groups have already used is forgotten.
AffordableAlone(e) ==
  {p \in Precision : p >= assign[e] /\ Cost(e, p) <= call.budget}

Affordable(e) ==
  {p \in Precision : p = assign[e] \/ (p > assign[e] /\ used + Cost(e, p) <= call.budget)}

\* Mutant: the least affordable upgrade only.
UpgradedOnce(e) ==
  CHOOSE p \in Affordable(e) :
    \/ Affordable(e) = {p}
    \/ p > assign[e] /\ \A q \in Affordable(e) : q > assign[e] => p <= q

Upgraded(e) == CHOOSE p \in Affordable(e) : \A q \in Affordable(e) : q <= p
-----------------------------------------------------------------------------
Init ==
  /\ call \in Calls
  /\ pc = "call" /\ todo = {} /\ used = 0 /\ feasible = TRUE
  /\ assign = Uniform(16)

\* budget_bytes >= total_fp16: no compression.
AllFP16 ==
  /\ pc = "call" /\ call.budget >= TotalBytes(call, 16)
  /\ assign' = Uniform(16) /\ used' = TotalBytes(call, 16)
  /\ pc' = "returned" /\ feasible' = TRUE
  /\ UNCHANGED <<call, todo>>

StartFloor ==
  /\ pc = "call" /\ call.budget < TotalBytes(call, 16)
  /\ assign' = [e \in Entries |-> MinPrecision(call, e[1])]
  /\ used' = 0 /\ todo' = Entries
  /\ pc' = "floor" /\ feasible' = TRUE
  /\ UNCHANGED call

\* min_floor, and the same sum again when the entries are initialised.
AddFloor ==
  /\ pc = "floor"
  /\ \E e \in todo : /\ \A f \in todo : Index(e) <= Index(f)
                     /\ used' = used + Bytes(assign[e]) * ElemCount(e)
                     /\ todo' = todo \ {e}
  /\ UNCHANGED <<call, pc, assign, feasible>>

FloorFits ==
  /\ pc = "floor" /\ todo = {} /\ used <= call.budget
  /\ todo' = Entries /\ pc' = "upgrade"
  /\ UNCHANGED <<call, assign, used, feasible>>

\* Below the floor, but everything fits at INT2.
StartFromInt2 ==
  /\ pc = "floor" /\ todo = {} /\ used > call.budget
  /\ TotalBytes(call, 2) <= call.budget
  /\ assign' = Uniform(2) /\ used' = TotalBytes(call, 2)
  /\ todo' = Entries /\ pc' = "upgrade" /\ feasible' = FALSE
  /\ UNCHANGED call

\* Nothing fits: INT2 all the same.
BareInt2 ==
  /\ pc = "floor" /\ todo = {} /\ used > call.budget
  /\ TotalBytes(call, 2) > call.budget
  /\ assign' = Uniform(2) /\ used' = TotalBytes(call, 2) + MetadataBytes(call, 2)
  /\ pc' = "returned" /\ feasible' = FALSE
  /\ UNCHANGED <<call, todo>>

Upgrade ==
  /\ pc = "upgrade"
  /\ \E e \in todo : /\ NextUp(e)
                     /\ assign' = [assign EXCEPT ![e] = Upgraded(e)]
                     /\ used' = used + Cost(e, Upgraded(e))
                     /\ todo' = todo \ {e}
  /\ UNCHANGED <<call, pc, feasible>>

EndUpgrade ==
  /\ pc = "upgrade" /\ todo = {}
  /\ todo' = Entries /\ pc' = "metadata"
  /\ UNCHANGED <<call, assign, used, feasible>>

\* meta_overhead, after the budget has been spent.
AddMetadata ==
  /\ pc = "metadata"
  /\ \E e \in todo : /\ \A f \in todo : Index(e) <= Index(f)
                     /\ used' = used + (IF assign[e] <= 4 THEN GroupMeta(e) ELSE 0)
                     /\ todo' = todo \ {e}
  /\ UNCHANGED <<call, pc, assign, feasible>>

\* Mutant: the result is built before the metadata is counted.
ReturnEarly ==
  /\ pc = "metadata"
  /\ pc' = "returned"
  /\ UNCHANGED <<call, todo, assign, used, feasible>>

Return ==
  /\ pc = "metadata" /\ todo = {}
  /\ pc' = "returned"
  /\ UNCHANGED <<call, todo, assign, used, feasible>>

Allocate == \/ AllFP16 \/ StartFloor \/ AddFloor \/ FloorFits \/ StartFromInt2
            \/ BareInt2 \/ Upgrade \/ EndUpgrade \/ AddMetadata \/ Return

Spec == Init /\ [][Allocate]_allocation
-----------------------------------------------------------------------------
(* Properties. *)

\* Types: every entry has a precision, and only entries are visited.
AllocationTypeOK ==
  /\ pc \in {"call", "floor", "upgrade", "metadata", "returned"}
  /\ todo \subseteq Entries
  /\ assign \in [Entries -> Precision]
  /\ used \in Nat /\ feasible \in BOOLEAN

\* Documented for budget_bytes ("Maximum bytes allowed for the transfer"):
\* what the upgrades spend stays within it, from either starting point.
PayloadWithinBudget ==
  pc = "upgrade" \/ (pc = "metadata" /\ todo = Entries) => used <= call.budget

\* The greedy loops leave no upgrade behind: when they end, no group could be
\* given any higher precision with the bytes that are left.
NoUpgradeLeft ==
  pc = "metadata" /\ todo = Entries =>
    \A e \in Entries, p \in Precision :
      p > assign[e] => used + Cost(e, p) > call.budget

\* Of two groups with equally many tokens and the same floor the more
\* important one is never assigned a lower precision; below the floor that
\* holds for any two groups.  (Prompts with empty groups aside.)
ImportanceRespected ==
  pc \in {"metadata", "returned"} /\ ~Unsortable =>
    \A e, f \in Entries :
      /\ ElemCount(e) = ElemCount(f) /\ call.imp[e] > call.imp[f]
      /\ feasible => MinPrecision(call, e[1]) = MinPrecision(call, f[1])
      => assign[e] >= assign[f]
=============================================================================
