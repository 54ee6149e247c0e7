----------------------------- MODULE LayerDrop -----------------------------
(***************************************************************************)
(* How run_prefill_turn sheds layers when the allocator says the budget is *)
(* infeasible: least important first, until the rest fits at INT4.         *)
(* Entries is the allocator's list of (layer, group) pairs by decreasing   *)
(* importance; Int4Bytes and Budget are in the same unit.                  *)
(***************************************************************************)
EXTENDS Integers, Sequences, FiniteSets, FiniteSetsExt, SequencesExt

\* allocation.dropped_layers: one element per group entry, so a layer occurs
\* once for each of its groups.
Dropped(entries) == Reverse([i \in DOMAIN entries |-> entries[i].layer])

Kept(layers, entries, n) ==
  layers \ {Dropped(entries)[i] : i \in 1 .. n}

Int4Total(layers, int4Bytes) ==
  FoldSet(LAMBDA l, acc : acc + int4Bytes[l], 0, layers)

\* The values of num_drop for which the rest fits.
Fitting(layers, entries, int4Bytes, budget) ==
  {n \in 1 .. Len(entries) :
     Int4Total(Kept(layers, entries, n), int4Bytes) <= budget}

\* Mutant: the layer count is not lowered.
ShedUncounted(layers, entries, int4Bytes, budget) ==
  LET fit == Fitting(layers, entries, int4Bytes, budget)
  IN [layers |-> IF fit = {} THEN layers ELSE Kept(layers, entries, Min(fit)),
      announced |-> Cardinality(layers)]

\* What is quantised and sent, and the layer count announced to the decode
\* node: num_layers -= num_drop.  Nothing is dropped when nothing fits.
Shed(layers, entries, int4Bytes, budget) ==
  LET fit == Fitting(layers, entries, int4Bytes, budget)
  IN IF fit = {} THEN [layers |-> layers, announced |-> Cardinality(layers)]
     ELSE [layers |-> Kept(layers, entries, Min(fit)),
           announced |-> Cardinality(layers) - Min(fit)]
=============================================================================
