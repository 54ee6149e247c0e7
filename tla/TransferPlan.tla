---------------------------- MODULE TransferPlan ----------------------------
(***************************************************************************)
(* What run_prefill_turn decides before it sends a cache: the budget from  *)
(* the probe's estimate, the first allocation, the layers it sheds when    *)
(* the budget is infeasible, the second allocation for the rest, the path  *)
(* it then takes, and the size of what that path sends.                    *)
(***************************************************************************)
EXTENDS PrecisionAllocator, Sequences, SequencesExt

CONSTANTS
  Bandwidths,    \* estimates of the probe, in quarter bytes per second
  TargetTime,    \* TARGET_TRANSFER_TIME
  MaxTime        \* MAX_TRANSFER_TIME

ASSUME PlanAssumption ==
  Bandwidths \subseteq Nat /\ TargetTime \in Nat /\ MaxTime \in Nat

\* The prefill node holds every layer of the model (prefill_layer_range (0, 0)).
ASSUME WholeModelAssumption == \A c \in Calls : c.numLayers = Cardinality(c.layers)

VARIABLES
  bw,      \* snapshot.bandwidth_ewma
  held,    \* the layers of kv_cache, which the plan is made for
  stage    \* "snapshot", "first", "second" (allocation), then "fp16" or "abkt"

vars == <<allocation, bw, held, stage>>

Drop == INSTANCE LayerDrop

\* INT4 for every layer with 30 % headroom, whatever the probe says.
Int4Floor(c) == ((TotalBytes(c, 4) + MetadataBytes(c, 4)) * 13) \div 10

\* Mutant: the safety cap is forgotten.
BudgetUncapped(c, b) ==
  IF Int4Floor(c) > b * TargetTime THEN Int4Floor(c) ELSE b * TargetTime

Budget(c, b) ==
  LET quality == IF Int4Floor(c) > b * TargetTime THEN Int4Floor(c) ELSE b * TargetTime
  IN IF quality > b * MaxTime THEN b * MaxTime ELSE quality

PlanInit == Init /\ bw = 0 /\ held = call.layers /\ stage = "snapshot"

TakeSnapshot ==
  /\ stage = "snapshot"
  /\ bw' \in Bandwidths
  /\ call' = [call EXCEPT !.budget = Budget(call, bw')]
  /\ stage' = "first"
  /\ UNCHANGED <<pc, todo, assign, used, feasible, held>>

AllocateStep == stage \in {"first", "second"} /\ Allocate /\ UNCHANGED <<bw, held, stage>>

\* dropped_layers follows the sorted entries, one element per group.
SortedEntries ==
  LET sorted(order) == \A i, j \in DOMAIN order : i < j => Before(order[i], order[j])
  IN {[i \in DOMAIN order |-> [layer |-> order[i][1], group |-> order[i][2]]] :
        order \in {o \in SetToSeqs(Entries) : Unsortable \/ sorted(o)}}

Shed ==
  /\ stage = "first" /\ pc = "returned" /\ ~feasible
  /\ \E entries \in SortedEntries :
       LET shed == Drop!Shed(call.layers, entries,
                     [l \in call.layers |-> call.seqLen * PerToken * Bytes(4)],
                     call.budget)
       IN call' = [call EXCEPT !.layers = shed.layers, !.numLayers = shed.announced,
                               !.imp = [e \in shed.layers \X Groups |-> call.imp[e]]]
  /\ assign' = [e \in call'.layers \X Groups |-> 16]
  /\ pc' = "call" /\ todo' = {} /\ used' = 0 /\ feasible' = TRUE
  /\ stage' = "second"
  /\ UNCHANGED <<bw, held>>

\* compression_ratio == 1.0.  The loop that starts from INT2 reckons it
\* without the metadata, and stays below FP16.
FullSize == used = TotalBytes(call, 16) /\ (feasible \/ TotalBytes(call, 2) > call.budget)

HavePlan == pc = "returned" /\ stage \in {"first", "second"} /\ (stage = "first" => feasible)

\* kv_cache.to_transport_dict() ...
PlanFP16 == HavePlan /\ FullSize /\ stage' = "fp16" /\ UNCHANGED <<allocation, bw, held>>

\* ... or ChunkedSender.send_all of what the quantiser makes of the plan.
PlanABKT == HavePlan /\ ~FullSize /\ stage' = "abkt" /\ UNCHANGED <<allocation, bw, held>>

-----------------------------------------------------------------------------
\* The quantiser gives a layer one precision, the most common of its groups,
\* of equally common ones the one met first.
LayerPrecision(l) ==
  LET count(g) == Cardinality({h \in Groups : assign[<<l, h>>] = assign[<<l, g>>]})
      first == CHOOSE g \in Groups : \A h \in Groups :
                 count(g) > count(h) \/ (count(g) = count(h) /\ g <= h)
  IN assign[<<l, first>>]

\* An element of the tensors it makes: INT4 and INT2 values are not packed.
TensorBytes(p) == IF p = 16 THEN Bytes(16) ELSE Bytes(8)

\* The FP16 path knows nothing of the layers that were shed.
FP16Bytes == TotalBytes([layers |-> held, seqLen |-> call.seqLen], 16)

\* What the sender sends, scales and zero points aside ...
SentBytes ==
  IF stage = "fp16" THEN FP16Bytes
  ELSE MapThenSumSet(LAMBDA l : call.seqLen * PerToken * TensorBytes(LayerPrecision(l)), call.layers)

\* ... and at the sizes and the precisions the allocator reckons with.
PlannedBytes == IF stage = "fp16" THEN FP16Bytes ELSE used

Next == TakeSnapshot \/ AllocateStep \/ Shed \/ PlanFP16 \/ PlanABKT

PlanSpec == PlanInit /\ [][Next]_vars
-----------------------------------------------------------------------------
Decided == stage \in {"fp16", "abkt"}

\* Types, and the stages in which the allocator works.
TypeOK == /\ AllocationTypeOK
          /\ bw \in Bandwidths \cup {0} /\ held \subseteq Nat
          /\ stage \in {"snapshot", "first", "second", "fp16", "abkt"}
          /\ stage = "snapshot" \/ Decided => todo = {}

\* The decode node is never told to wait for more layers than are sent.
AnnouncedCanArrive ==
  stage = "abkt" => call.numLayers <= Cardinality(call.layers)

SafetyCap == PlannedBytes <= bw * MaxTime + MetadataBytes(call, 2)

\* Documented for MAX_TRANSFER_TIME ("safety cap"): whatever the floor, the
\* first allocation and the shedding do, what is sent, at the sizes the
\* allocator reckons with, can be sent in that time, metadata aside; unless
\* layers were shed and the rest is then sent in FP16, for the FP16 path
\* sends the layers that were shed too.
TransferTimeCapped ==
  stage = "abkt" \/ (stage = "fp16" /\ call.layers = held) => SafetyCap

\* Documented at the cap ("don't let transfer time exceed practical limits"):
\* without that exception.  The code does not keep it: see 6 in the README.
EveryTransferCapped == Decided => SafetyCap

\* Documented for budget_bytes ("Maximum bytes allowed for the transfer"), and
\* true of what the allocator reckons: what is sent in chunks stays within the
\* budget, when the budget is feasible.
SentWithinBudget ==
  stage = "abkt" /\ feasible => SentBytes <= call.budget

\* Documented at the quality floor ("Every layer must get at least INT4").
QualityFloor ==
  Decided /\ call.budget < bw * MaxTime => \A e \in Entries : assign[e] >= 4
=============================================================================
