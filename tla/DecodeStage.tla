---------------------------- MODULE DecodeStage -----------------------------
(***************************************************************************)
(* DecodeStage of pd_inference/model.py: threads decode requests, each     *)
(* with run_full_decode, over one table of caches.  The table is locked,   *)
(* the list of a request's layer caches is shared by reference and changed *)
(* in place outside the lock.                                              *)
(***************************************************************************)
EXTENDS KVLayout

CONSTANTS
  MaxNewTokens,       \* max_new_tokens
  MaxCancels,         \* bound: calls of clear_kv from outside in a run
  DecodeEnvironments  \* whether decoding may raise, whether others cancel, and
                      \* whether a layer returns its cache

ASSUME MaxNewTokensAssumption == MaxNewTokens \in Nat
ASSUME MaxCancelsAssumption == MaxCancels \in Nat
ASSUME DecodeEnvironmentsAssumption ==
  DecodeEnvironments \subseteq [raises: BOOLEAN, cancels: BOOLEAN, returnsKV: BOOLEAN]

VARIABLES
  denv,    \* the circumstances
  given,   \* by request: the caches it was given, and the length of its prompt
  table,   \* _kv_cache: by request a list, or Nothing
  lists,   \* the lists there are
  pc,      \* where the thread of a request is
  ref,     \* the list its step works on
  local,   \* layers its step has run
  dhidden, \* its hidden state
  pastLen, \* past_len
  tokens,  \* len(generated)
  used,    \* by step: what the logits depended on
  cancels  \* calls of clear_kv so far

decode == <<denv, given, table, lists, pc, ref, local, dhidden, pastLen, tokens, used, cancels>>

Nothing == 0                             \* no list
Requests == DOMAIN given
Fresh == [l \in 1 .. NumLayers |-> NoKV]

DecodeInit(requests) ==
  /\ denv \in DecodeEnvironments
  /\ given = [r \in requests |-> [kv |-> <<>>, prompt |-> 0]]
  /\ table = [r \in requests |-> Nothing]
  /\ lists = <<>>
  /\ pc = [r \in requests |-> "idle"]
  /\ ref = [r \in requests |-> Nothing]
  /\ local = [r \in requests |-> 0]
  /\ dhidden = [r \in requests |-> Embedding(0)]
  /\ pastLen = [r \in requests |-> 0]
  /\ tokens = [r \in requests |-> 0]
  /\ used = [r \in requests |-> <<>>]
  /\ cancels = 0
-----------------------------------------------------------------------------
\* A new list is put into the table.
Store(r, list) == /\ lists' = Append(lists, list)
                  /\ table' = [table EXCEPT ![r] = Len(lists) + 1]

\* run_full_decode up to its loop; the caller has the caches of a prefill and
\* the tokens of the prompt.
Start(r, kv, prompt) ==
  /\ pc[r] = "idle"
  /\ given' = [given EXCEPT ![r] = [kv |-> kv, prompt |-> prompt]]
  /\ Store(r, Normalized(kv))
  /\ pastLen' = [pastLen EXCEPT ![r] = PastLen(kv)]
  /\ tokens' = [tokens EXCEPT ![r] = prompt]
  /\ pc' = [pc EXCEPT ![r] = IF MaxNewTokens = 0 THEN "clear" ELSE "get"]
  /\ UNCHANGED <<denv, ref, local, dhidden, used, cancels>>

\* decode_step: the list of the request is looked up ...
GetList(r) ==
  /\ pc[r] = "get"
  /\ ref' = [ref EXCEPT ![r] = table[r]]
  /\ local' = [local EXCEPT ![r] = 0]
  /\ dhidden' = [dhidden EXCEPT ![r] = Embedding(tokens[r])]
  /\ pc' = [pc EXCEPT ![r] = IF table[r] = Nothing THEN "fresh" ELSE "layers"]
  /\ UNCHANGED <<denv, given, table, lists, pastLen, tokens, used, cancels>>

\* Mutant: the empty list is made once and shared.
StoreFreshShared(r) ==
  /\ pc[r] = "fresh"
  /\ table' = [table EXCEPT ![r] = 1]
  /\ ref' = [ref EXCEPT ![r] = 1]
  /\ pc' = [pc EXCEPT ![r] = "layers"]
  /\ UNCHANGED <<denv, given, lists, local, dhidden, pastLen, tokens, used, cancels>>

\* ... and an empty one is put there, under the lock once more, if there is none.
StoreFresh(r) ==
  /\ pc[r] = "fresh"
  /\ Store(r, Fresh)
  /\ ref' = [ref EXCEPT ![r] = Len(lists) + 1]
  /\ pc' = [pc EXCEPT ![r] = "layers"]
  /\ UNCHANGED <<denv, given, local, dhidden, pastLen, tokens, used, cancels>>

\* Mutant: the layer's cache is replaced by what it returned for this token.
RunLayerReplace(r) ==
  /\ pc[r] = "layers" /\ local[r] < NumLayers
  /\ LET l == local[r] + 1
         kv == Append(lists[ref[r]][l], Entry(<<r, tokens[r]>>, pastLen[r] + 1, dhidden[r]))
     IN  /\ lists' = [lists EXCEPT ![ref[r]][l] = <<kv[Len(kv)]>>]
         /\ dhidden' = [dhidden EXCEPT ![r] = [saw |-> UNION {kv[q].of.saw : q \in DOMAIN kv}, depth |-> l]]
         /\ local' = [local EXCEPT ![r] = l]
  /\ UNCHANGED <<denv, given, table, pc, ref, pastLen, tokens, used, cancels>>

\* One layer: it attends to its cache and the token, and the list gets the
\* cache with the token, if the layer returns it.
RunLayer(r) ==
  /\ pc[r] = "layers" /\ local[r] < NumLayers
  /\ LET l == local[r] + 1
         kv == Append(lists[ref[r]][l], Entry(<<r, tokens[r]>>, pastLen[r] + 1, dhidden[r]))
     IN  /\ lists' = IF denv.returnsKV THEN [lists EXCEPT ![ref[r]][l] = kv] ELSE lists
         /\ dhidden' = [dhidden EXCEPT ![r] = [saw |-> UNION {kv[q].of.saw : q \in DOMAIN kv}, depth |-> l]]
         /\ local' = [local EXCEPT ![r] = l]
  /\ UNCHANGED <<denv, given, table, pc, ref, pastLen, tokens, used, cancels>>

\* A layer, or anything else in the step, raises: run_full_decode ends.
Raise(r) ==
  /\ denv.raises
  /\ pc[r] \in {"get", "layers"}
  /\ pc' = [pc EXCEPT ![r] = "failed"]
  /\ UNCHANGED <<denv, given, table, lists, ref, local, dhidden, pastLen, tokens, used, cancels>>

\* Mutant: the position stays where it is.
EndStepInPlace(r) ==
  /\ pc[r] = "layers" /\ local[r] = NumLayers
  /\ table' = [table EXCEPT ![r] = ref[r]]
  /\ used' = [used EXCEPT ![r] = Append(@, dhidden[r].saw)]
  /\ tokens' = [tokens EXCEPT ![r] = @ + 1]
  /\ pc' = [pc EXCEPT ![r] = IF tokens[r] + 1 = given[r].prompt + MaxNewTokens THEN "clear" ELSE "get"]
  /\ UNCHANGED <<denv, given, lists, ref, local, dhidden, pastLen, cancels>>

\* The list goes into the table again, and the next token is chosen.
EndStep(r) ==
  /\ pc[r] = "layers" /\ local[r] = NumLayers
  /\ table' = [table EXCEPT ![r] = ref[r]]
  /\ used' = [used EXCEPT ![r] = Append(@, dhidden[r].saw)]
  /\ tokens' = [tokens EXCEPT ![r] = @ + 1]
  /\ pastLen' = [pastLen EXCEPT ![r] = @ + 1]
  /\ pc' = [pc EXCEPT ![r] = IF tokens[r] + 1 = given[r].prompt + MaxNewTokens THEN "clear" ELSE "get"]
  /\ UNCHANGED <<denv, given, lists, ref, local, dhidden, cancels>>

\* Mutant: the caller is expected to clear the cache.
FinishKeep(r) ==
  /\ pc[r] = "clear"
  /\ pc' = [pc EXCEPT ![r] = "done"]
  /\ UNCHANGED <<denv, given, table, lists, ref, local, dhidden, pastLen, tokens, used, cancels>>

\* The end of run_full_decode.
Finish(r) ==
  /\ pc[r] = "clear"
  /\ table' = [table EXCEPT ![r] = Nothing]
  /\ pc' = [pc EXCEPT ![r] = "done"]
  /\ UNCHANGED <<denv, given, lists, ref, local, dhidden, pastLen, tokens, used, cancels>>

\* clear_kv, called by another thread for a request that is being decoded.
Cancel(r) ==
  /\ denv.cancels /\ cancels < MaxCancels
  /\ table[r] # Nothing
  /\ table' = [table EXCEPT ![r] = Nothing]
  /\ cancels' = cancels + 1
  /\ UNCHANGED <<denv, given, lists, pc, ref, local, dhidden, pastLen, tokens, used>>

DecodeStep == \E r \in Requests :
  GetList(r) \/ StoreFresh(r) \/ RunLayer(r) \/ Raise(r) \/ EndStep(r) \/ Finish(r) \/ Cancel(r)
-----------------------------------------------------------------------------
Complete(r) == \A l \in 1 .. NumLayers : l \in DOMAIN given[r].kv /\ given[r].kv[l] # NoKV

\* No two requests ever work on one list, whatever is cleared and made anew.
OwnList ==
  \A r, q \in Requests : r # q =>
    {table[r], ref[r]} \cap {table[q], ref[q]} \subseteq {Nothing}

\* The caches a step works on hold tokens of its own request only.
OwnTokens ==
  \A r \in Requests : pc[r] = "layers" =>
    \A l \in 1 .. NumLayers : \A q \in DOMAIN lists[ref[r]][l] : lists[ref[r]][l][q].tok[1] = r

InStep(r) ==
  \A l \in 1 .. NumLayers : l \in DOMAIN given[r].kv /\ given[r].kv[l] # NoKV =>
    Len(lists[ref[r]][l]) = pastLen[r] + (IF l <= local[r] THEN 1 ELSE 0)

\* As long as nobody clears it, and the layers return their caches, the cache
\* of a layer that came with the request is as long as the position the next
\* token is given says, in every layer, while another request is decoded in
\* between.
PositionIsCacheLength ==
  denv.returnsKV /\ cancels = 0 => \A r \in Requests : pc[r] = "layers" => InStep(r)

\* Documented for DecodeStage ("Each request maintains its own KV cache for
\* the duration of autoregressive generation") and for past_len: the same of
\* every layer there is.  The code does not keep it: see 6 in the README.
CacheMaintained == cancels = 0 => \A r \in Requests : pc[r] = "layers" => InStep(r)

\* With a complete cache, and layers that return theirs, each token is chosen
\* on the whole conversation.
WholeContext ==
  denv.returnsKV /\ cancels = 0 =>
    \A r \in Requests : Complete(r) =>
      \A g \in DOMAIN used[r] : used[r][g] = 1 .. given[r].prompt + g - 1

\* A request that was decoded to its end leaves no cache in the table, even
\* if it was cleared in the middle of a step and put there again.
NoCacheLeft == \A r \in Requests : pc[r] = "done" => table[r] = Nothing
=============================================================================
