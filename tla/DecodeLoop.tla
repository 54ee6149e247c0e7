----------------------------- MODULE DecodeLoop -----------------------------
(***************************************************************************)
(* The token loop of the decode node, which handle_run_decode and          *)
(* run_decode_from_abkt share but for printing: how many tokens are        *)
(* generated, what the KV cache holds at each forward pass, and how long   *)
(* the attention mask is.                                                  *)
(*                                                                         *)
(* A token is its position in the text: the prompt is 1 .. prompt.  A      *)
(* forward pass is external: it appends its input token to the cache of    *)
(* every layer of the model.                                               *)
(***************************************************************************)
EXTENDS Integers, Sequences

CONSTANTS
  Layers,        \* layers of the model
  Prompts,       \* lengths of the prompt
  Requests,      \* max_new_tokens
  FirstGiven,    \* {TRUE}: first_token is sent; {TRUE, FALSE}: it may be None
  KeptSets       \* layers that were not shed; handle_run_decode gets them all

ASSUME LayersAssumption == 0 \in Layers /\ Layers \subseteq Nat
ASSUME InputsAssumption ==
  /\ Prompts \subseteq Nat \ {0} /\ Requests \subseteq Int
  /\ FirstGiven \subseteq BOOLEAN
  /\ KeptSets \subseteq (SUBSET Layers) \ {{}}

VARIABLES
  prompt, asked, first, kept,  \* the request
  pc,
  text,       \* len(generated)
  left,       \* tokens_to_generate, tokens_left
  cache,      \* tokens in the cache of each layer, oldest first
  mask        \* length of the attention mask of the last forward pass

input == <<prompt, asked, first, kept>>
vars == <<input, pc, text, left, cache, mask>>

Init ==
  /\ prompt \in Prompts /\ asked \in Requests
  /\ first \in FirstGiven /\ kept \in KeptSets
  /\ pc = "begin" /\ text = prompt /\ left = 0
  /\ cache = [l \in Layers |-> IF l \in kept THEN [i \in 1 .. prompt |-> i] ELSE <<>>]
  /\ mask = 0

\* Mutant: the first token is not counted.
BeginUncounted ==
  /\ pc = "begin"
  /\ text' = IF first THEN prompt + 1 ELSE prompt
  /\ left' = asked
  /\ pc' = IF first /\ left' >= 0 THEN "verify" ELSE "loop"
  /\ UNCHANGED <<input, cache, mask>>

\* generated starts with the prompt and the first token; the sanity check
\* runs when tokens_to_generate is not negative.
Begin ==
  /\ pc = "begin"
  /\ text' = IF first THEN prompt + 1 ELSE prompt
  /\ left' = IF first THEN asked - 1 ELSE asked
  /\ pc' = IF first /\ left' >= 0 THEN "verify" ELSE "loop"
  /\ UNCHANGED <<input, cache, mask>>

\* get_seq_length(0): the length of layer 0, whatever the others hold.
PastLength == Len(cache[0])

\* Mutant: the mask covers the current token only.
ForwardShortMask ==
  /\ mask' = 1
  /\ cache' = [l \in Layers |-> Append(cache[l], text)]
  /\ text' = text + 1
  /\ left' = left - 1

\* The model on generated[-1], and the next token.
Forward ==
  /\ mask' = PastLength + 1
  /\ cache' = [l \in Layers |-> Append(cache[l], text)]
  /\ text' = text + 1
  /\ left' = left - 1

\* Mutant: the token of the sanity check is dropped, its cache entry stays.
VerifyDropped ==
  /\ pc = "verify"
  /\ mask' = PastLength + 1
  /\ cache' = [l \in Layers |-> Append(cache[l], text)]
  /\ pc' = "loop"
  /\ UNCHANGED <<input, text, left>>

\* The sanity check is the first decode step: its token is kept.
Verify == pc = "verify" /\ Forward /\ pc' = "loop" /\ UNCHANGED input

\* Mutant: one step too many.
StepOneMore == pc = "loop" /\ left >= 0 /\ Forward /\ UNCHANGED <<input, pc>>

\* for step in range(max(tokens_to_generate, 0))
Step == pc = "loop" /\ left > 0 /\ Forward /\ UNCHANGED <<input, pc>>

Finish == /\ pc = "loop" /\ left <= 0
          /\ pc' = "done"
          /\ UNCHANGED <<input, text, left, cache, mask>>

Done == pc = "done" /\ UNCHANGED vars

Next == Begin \/ Verify \/ Step \/ Finish \/ Done

Spec == Init /\ [][Next]_vars
-----------------------------------------------------------------------------
\* Types; what is left and what was generated add up to the request.
TypeOK ==
  /\ prompt \in Prompts /\ asked \in Requests /\ first \in FirstGiven /\ kept \in KeptSets
  /\ pc \in {"begin", "verify", "loop", "done"}
  /\ text \in Nat /\ left \in Int /\ mask \in Nat
  /\ cache \in [Layers -> Seq(Nat)]
  /\ pc # "begin" => left = asked - (text - prompt)

\* When the prefill node sends its first token, every layer that was not shed
\* holds the tokens before the last one, each once and in order: the sanity
\* step neither repeats nor skips one.
CacheFollowsText ==
  first => \A l \in kept :
    cache[l] = [i \in 1 .. (IF pc = "begin" THEN prompt ELSE text - 1) |-> i]

\* The mask of a forward pass covers the past and the current token of every
\* layer, when layer 0 was not shed.
MaskCovers == mask # 0 => \A l \in kept : mask = Len(cache[l])
MaskCoversKept == 0 \in kept => MaskCovers

\* Claimed by handle_run_decode: the mask covers the full causal window.
MaskCoversWindow == MaskCovers

\* As many new tokens as asked for, but for requests of at most one token: the
\* first token and the one of the sanity check come before the limit counts.
Generated == text - prompt
TokensAsAsked == pc = "done" /\ (asked >= 2 \/ (asked >= 0 /\ ~first)) => Generated = asked
=============================================================================
