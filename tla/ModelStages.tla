---------------------------- MODULE ModelStages -----------------------------
(***************************************************************************)
(* The two stages together: a batch is prefilled, its cache split by       *)
(* request, and, where one stage holds all layers, each request decoded by *)
(* a thread of its own.                                                    *)
(***************************************************************************)
EXTENDS PrefillStage, DecodeStage

vars == <<prefill, decode>>

Init == PrefillInit /\ DecodeInit(DOMAIN penv.lengths)

Prefill == PrefillStep /\ UNCHANGED decode

HandOver(r) ==
  /\ Prefilled /\ penv.stages = 1
  /\ Start(r, SplitByLength(parts[1], r, penv.lengths[r]), penv.lengths[r])
  /\ UNCHANGED prefill

Decode == DecodeStep /\ UNCHANGED prefill

Next == Prefill \/ (\E r \in Requests : HandOver(r)) \/ Decode

Spec == Init /\ [][Next]_vars
-----------------------------------------------------------------------------
TypeOK ==
  /\ penv \in PrefillEnvironments /\ denv \in DecodeEnvironments
  /\ stage \in 1 .. penv.stages + 1 /\ layer \in 0 .. NumLayers
  /\ norms \in {0, 1}
  /\ loaded \in [1 .. penv.stages -> {"no", "full", "partial", "raised"}]
  /\ \A i \in Rows : \A p \in DOMAIN hidden[i] : hidden[i][p].saw \subseteq 1 .. Width(penv.lengths)
  /\ \A s \in DOMAIN parts : Len(parts[s]) <= End(s) - First(s)
  /\ \A r \in Requests : {table[r], ref[r]} \subseteq 0 .. Len(lists)
  /\ \A o \in DOMAIN lists : DOMAIN lists[o] = 1 .. NumLayers
  /\ pc \in [Requests -> {"idle", "get", "fresh", "layers", "clear", "done", "failed"}]
  /\ local \in [Requests -> 0 .. NumLayers]
  /\ pastLen \in [Requests -> Nat] /\ tokens \in [Requests -> Nat]
  /\ cancels \in 0 .. MaxCancels

\* A request's cache starts with its own prompt and nothing else: no padding
\* of the batch and no token of another request.
OwnPromptGiven ==
  \A r \in Requests : \A l \in DOMAIN given[r].kv :
    /\ Len(given[r].kv[l]) \in {0, penv.lengths[r]}
    /\ \A p \in DOMAIN given[r].kv[l] : given[r].kv[l][p].tok = <<r, p>>

\* Padding and causality together: a request's cache is its own prompt's, and
\* each entry depends on the tokens up to its own.
OwnPromptCached == CausalCache /\ OwnPromptGiven

\* A token is chosen on the conversation of its own request: the lists are not
\* shared and hold its tokens only, the position counts what is cached, and
\* with a complete cache nothing of the conversation is missing.
ContextInStep == OwnList /\ OwnTokens /\ PositionIsCacheLength /\ WholeContext
=============================================================================
