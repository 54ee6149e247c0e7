---------------------------- MODULE PrefillStage ----------------------------
(***************************************************************************)
(* PrefillStage of pd_inference/model.py: a padded batch of prompts goes   *)
(* through stages that hold a range of layers each.  The first stage runs  *)
(* the whole model and keeps its part of the caches, the others run their  *)
(* own layers on the hidden states they are given.                         *)
(***************************************************************************)
EXTENDS KVLayout, FiniteSets, SequencesExt

CONSTANT PrefillEnvironments             \* see PrefillEnvironmentType

\* The parameters of the model: the layers, and what comes before and after.
LayerIds == 0 .. NumLayers - 1
EmbedPart == NumLayers
NormPart == NumLayers + 1
HeadPart == NumLayers + 2
Parameters == 0 .. HeadPart

\* How many stages there are, the lengths of the prompts, whether the last
\* stage asks for the head, the parameters the local checkpoint has (none:
\* it is not local), whether a layer that is run by itself returns its cache,
\* the layers whose cache cannot be extracted, and whether the layers take
\* their positions as an argument (use_rope).
PrefillEnvironmentType ==
  [stages: 1 .. NumLayers, lengths: Seq(Nat \ {0}), head: BOOLEAN,
   checkpoint: SUBSET Parameters, returnsKV: BOOLEAN, lost: SUBSET LayerIds,
   rope: BOOLEAN]
ASSUME PrefillEnvironmentsAssumption == PrefillEnvironments \subseteq PrefillEnvironmentType

VARIABLES
  penv,    \* the circumstances
  stage,   \* the stage whose turn it is
  loaded,  \* "no", "full", "partial" or "raised", by stage
  layer,   \* layers of this stage that have run
  hidden,  \* the hidden states it works on, by prompt
  norms,   \* how often the final norm of the model has been applied to them
  parts    \* kv_cache of every stage, by local layer

prefill == <<penv, stage, loaded, layer, hidden, norms, parts>>

Ranges == LayerRanges(penv.stages)
First(s) == Ranges[s][1]
End(s) == Ranges[s][2]
Rows == DOMAIN penv.lengths
Mask(i) == RowMask(penv.lengths[i], Width(penv.lengths))

PrefillInit ==
  /\ penv \in PrefillEnvironments
  /\ stage = 1 /\ layer = 0
  /\ loaded = [s \in 1 .. penv.stages |-> "no"]
  /\ hidden = [i \in Rows |-> <<>>] /\ norms = 0
  /\ parts = [s \in 1 .. penv.stages |-> <<>>]
-----------------------------------------------------------------------------
\* _build_prefixes_for_range
Wanted(s) == (First(s) .. End(s) - 1)
             \cup (IF First(s) = 0 THEN {EmbedPart} ELSE {})
             \cup (IF penv.head /\ End(s) = NumLayers THEN {NormPart, HeadPart} ELSE {})

\* Mutant: missing keys are not looked at.
PartiallyLoadedAny(s) == IF penv.checkpoint = {} THEN {} ELSE Wanted(s)

\* try_load_partial_model: what is loaded; nothing if anything is missing.
PartiallyLoaded(s) == IF Wanted(s) \subseteq penv.checkpoint THEN Wanted(s) ELSE {}

\* A model with parameters that were not loaded cannot be moved to the device.
Load(s) ==
  /\ s = stage /\ loaded[s] = "no"
  /\ loaded' = [loaded EXCEPT ![s] = IF PartiallyLoaded(s) = {} THEN "full"
                                     ELSE IF PartiallyLoaded(s) = Parameters THEN "partial"
                                     ELSE "raised"]
  /\ UNCHANGED <<penv, stage, layer, hidden, norms, parts>>

Ready(s) == s = stage /\ loaded[s] \in {"full", "partial"}

\* The cache of layer l, as far as it can be extracted.
Extracted(l, kv) == IF l \in penv.lost THEN NoKV ELSE kv

\* _forward_full_model: hidden states at the end of the range, and the caches
\* of its layers.  The model norms the last of its hidden states.
ForwardWhole(s) ==
  /\ Ready(s) /\ s = 1
  /\ LET states == [i \in Rows |-> HiddenStates(Mask(i))] IN
     /\ hidden' = [i \in Rows |-> states[i][End(s)]]
     /\ parts' = [parts EXCEPT ![s] = [k \in 1 .. End(s) - First(s) |->
                    LET l == First(s) + k - 1
                    IN  Extracted(l, [i \in Rows |-> KVOf(i, states[i][l])])]]
  /\ norms' = IF End(s) = NumLayers THEN 1 ELSE 0
  /\ stage' = s + 1
  /\ UNCHANGED <<penv, loaded, layer>>

\* What the layer caches of the hidden states it is given: forward passes on
\* no position_ids with them.
Unplaced(kv) == [p \in DOMAIN kv |-> [kv[p] EXCEPT !.pos = 0]]
CachedOf(states) ==
  [i \in Rows |-> IF penv.rope THEN Unplaced(KVOf(i, states[i])) ELSE KVOf(i, states[i])]

\* Mutant: every stage extracts the cache after the layer.
ForwardLayerLate(s) ==
  /\ Ready(s) /\ s > 1 /\ layer < End(s) - First(s)
  /\ hidden' = [i \in Rows |-> Attend(Mask(i), hidden[i])]
  /\ parts' = [parts EXCEPT ![s] = Append(@,
                 IF penv.returnsKV THEN Extracted(First(s) + layer, CachedOf(hidden')) ELSE NoKV)]
  /\ layer' = layer + 1
  /\ UNCHANGED <<penv, stage, loaded, norms>>

\* Mutant: one layer too many.
ForwardLayerOver(s) ==
  /\ Ready(s) /\ s > 1 /\ layer <= End(s) - First(s)
  /\ hidden' = [i \in Rows |-> Attend(Mask(i), hidden[i])]
  /\ parts' = [parts EXCEPT ![s] = Append(@, CachedOf(hidden))]
  /\ layer' = layer + 1
  /\ UNCHANGED <<penv, stage, loaded, norms>>

\* forward on given hidden states: one layer of the loop ...
ForwardLayer(s) ==
  /\ Ready(s) /\ s > 1 /\ layer < End(s) - First(s)
  /\ hidden' = [i \in Rows |-> Attend(Mask(i), hidden[i])]
  /\ parts' = [parts EXCEPT ![s] = Append(@,
                 IF penv.returnsKV THEN Extracted(First(s) + layer, CachedOf(hidden)) ELSE NoKV)]
  /\ layer' = layer + 1
  /\ UNCHANGED <<penv, stage, loaded, norms>>

\* ... and its end.
ForwardEnd(s) ==
  /\ Ready(s) /\ s > 1 /\ layer = End(s) - First(s)
  /\ stage' = s + 1 /\ layer' = 0
  /\ UNCHANGED <<penv, loaded, hidden, norms, parts>>

PrefillStep == \E s \in 1 .. penv.stages :
                 Load(s) \/ ForwardWhole(s) \/ ForwardLayer(s) \/ ForwardEnd(s)
Prefilled == stage > penv.stages

\* compute_logits norms what it is given, and then applies the head.
NormsInLogits == norms + 1
-----------------------------------------------------------------------------
\* The caches of all stages, in order.
WholeCache == FlattenSeq(parts)

\* What the model as a whole would have cached for layer l of prompt i.
Reference(l, i) == KVOf(i, HiddenStates(Mask(i))[l])

\* A stage runs with the weights of the model, never with a partly loaded one
\* that lacks some.
RunsOnlyLoaded ==
  \A s \in 1 .. penv.stages : loaded[s] = "partial" => Parameters \subseteq penv.checkpoint

\* The layers that are given the positions of the tokens.
Placed(l) == ~penv.rope \/ l < End(1)

\* Wherever the layers are divided, the stages together have run every layer
\* once, in order, on what the model as a whole would have given it, each
\* with the weights of the model; the final norm aside (LogitsNormedOnce), and
\* in a model with RoPE as far as the first stage goes, for the layers of the
\* others are given no positions.
StagesAreTheModel ==
  /\ RunsOnlyLoaded
  /\ Prefilled => /\ Len(WholeCache) = NumLayers
                  /\ \A l \in LayerIds : Placed(l) /\ WholeCache[l + 1] # NoKV =>
                       WholeCache[l + 1] = [i \in Rows |-> Reference(l, i)]
                  /\ Placed(NumLayers - 1) =>
                       \A i \in Rows : hidden[i] = HiddenStates(Mask(i))[NumLayers]

\* Documented for compute_logits ("Hidden states from the last layer"): what
\* the last stage hands out has not been normed, so that the logits are made
\* of states normed once.  The code does not keep it: see 6 in the README.
LogitsNormedOnce == Prefilled /\ penv.head => NormsInLogits = 1

\* What is cached for a token of a prompt depends on that token and the ones
\* before it, and on no padding.
CausalCache ==
  \A s \in DOMAIN parts : \A k \in DOMAIN parts[s] :
    parts[s][k] # NoKV => \A i \in Rows : \A p \in 1 .. penv.lengths[i] :
      parts[s][k][i][p].of.saw \subseteq 1 .. p
=============================================================================
