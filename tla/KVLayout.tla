------------------------------ MODULE KVLayout ------------------------------
(***************************************************************************)
(* The helpers of pd_inference/utils.py that lay out prompts, masks and    *)
(* caches.  A hidden state stands for the tokens it depends on and the     *)
(* layers it has gone through, a cached key/value pair for an entry: the   *)
(* token <<prompt, place in it>>, the position it was given and the hidden *)
(* state it is made of.  A layer works on each prompt of a batch by itself *)
(* (the first axis of its tensors), so the tokens a hidden state depends   *)
(* on are named by their place alone.                                      *)
(***************************************************************************)
EXTENDS Naturals, Sequences, FiniteSetsExt

CONSTANT NumLayers                       \* layers of the model
ASSUME NumLayersAssumption == NumLayers \in Nat \ {0}

NoKV == <<>>                             \* None in the place of a (k, v) pair
Entry(tok, pos, of) == [tok |-> tok, pos |-> pos, of |-> of]
KVOf(i, hidden) == [p \in DOMAIN hidden |-> Entry(<<i, p>>, p, hidden[p])]
Embedding(tok) == [saw |-> {tok}, depth |-> 0]
Embedded(n) == [p \in 1 .. n |-> Embedding(p)]

\* pad_batch: the width of the padded rows and the mask of a row.
Width(lengths) == Max({lengths[i] : i \in DOMAIN lengths})
RowMask(length, width) == [p \in 1 .. width |-> p <= length]

\* Mutant: as many keys of the future as there are in the cache.
VisibleAhead(mask, past, tgt, p, q) ==
  /\ q <= p + past + 1
  /\ Len(mask) = past + tgt => mask[q]

\* prepare_layer_attention_mask: may query p see key q?  The padding counts
\* only if the mask is as wide as the keys.
Visible(mask, past, tgt, p, q) ==
  /\ q <= p + past
  /\ Len(mask) = past + tgt => mask[q]

\* One decoder layer over a row that has nothing cached.
Attend(mask, hidden) ==
  LET keys(p) == {q \in DOMAIN hidden : Visible(mask, 0, Len(hidden), p, q)}
  IN  [p \in DOMAIN hidden |-> [saw   |-> UNION {hidden[q].saw : q \in keys(p)},
                                depth |-> hidden[p].depth + 1]]

\* The hidden states of a row before each layer, and after the last.
HiddenStates(mask) ==
  LET h[l \in 0 .. NumLayers] == IF l = 0 THEN Embedded(Len(mask)) ELSE Attend(mask, h[l - 1])
  IN  h

\* build_layer_ranges
LayerRanges(numStages) ==
  LET count(i) == NumLayers \div numStages + (IF i <= NumLayers % numStages THEN 1 ELSE 0)
      start[i \in 1 .. numStages] == IF i = 1 THEN 0 ELSE start[i - 1] + count(i - 1)
  IN  [i \in 1 .. numStages |-> <<start[i], start[i] + count(i)>>]

\* Mutant: the rows are not cut.
SplitUncut(kv, i, length) == [l \in DOMAIN kv |-> IF kv[l] = NoKV THEN NoKV ELSE kv[l][i]]

\* Mutant: every request is given the first row.
SplitFirst(kv, i, length) ==
  [l \in DOMAIN kv |-> IF kv[l] = NoKV THEN NoKV ELSE SubSeq(kv[l][1], 1, length)]

\* split_kv_cache_by_length: row i of every layer, cut to the prompt.
SplitByLength(kv, i, length) ==
  [l \in DOMAIN kv |-> IF kv[l] = NoKV THEN NoKV ELSE SubSeq(kv[l][i], 1, length)]

\* _normalize_kv_cache and init_kv: as many layers as the stage has, the ones
\* that were not given without a cache.
Normalized(kv) ==
  [l \in 1 .. NumLayers |-> IF l \in DOMAIN kv THEN kv[l] ELSE NoKV]

\* _infer_kv_past_len: the length of the first cache there is.
PastLen(kv) ==
  LET given == {l \in DOMAIN kv : kv[l] # NoKV}
  IN  IF given = {} THEN 0 ELSE Len(kv[Min(given)])
=============================================================================
