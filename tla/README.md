# ABKT / EdgePD: formal models and proofs

EdgePD splits the inference of a language model over two machines.  The
*prefill node* runs the prompt through the model and gets a KV cache; the
*decode node* generates the tokens from it.  ABKT is the part that ships the
cache over a link of changing bandwidth: it probes the link, turns the estimate
into a byte budget, gives every group of every layer a precision that fits the
budget, quantises, and streams the layers in chunks, most important first.

This directory holds TLA+ modules of that program, TLC configurations that
check them on small instances, and theorems with proofs checked by TLAPS.
Source paths are relative to the repository.

## 1. Inventory

### Components

| Component | State it keeps | Operations | What makes it correct |
|---|---|---|---|
| ABKT stream: `ChunkedSender` (`backend/chunked_transfer.py`), stream branch of `run_prefill_turn`, `SocketServer._handle_abkt_stream`, `ChunkAssembler` | sender: layer order, position, layers sent, precision map, cache captured before the loop; receiver: buffers per request, assembled cache, `assembly_done` | `send_all`, `_check_and_downgrade`, `add_chunk`, `cancel`, `decode_start` | only whole caches reach the decode loop, each once, read in the precision they were written in; no chunk outlives its stream; the stream ends |
| Session: `run_prefill_turn`, `SocketClient`, `SocketServer`, `handle_run_decode`, `handle_run_decode_abkt` | the connection, where each node is in the protocol, `_running`, `_client` | connect, the two-step FP16 protocol, the ABKT protocol, error replies, shutdown, close | no mutual wait; a turn reported as generated was decoded; the server outlives its clients |
| Layer shedding (`prefill_node.py:210-244`) | `num_layers`, the cache without the dropped layers | drop until INT4 fits | the count announced to the decode node is the number of layers sent |
| Network state machine (`backend/state_machine.py`) | state, deque of raw classes | `update` | fast drop, slow but certain rise, no flapping |
| Network probe (`backend/network_probe.py`, `backend/ewma.py`) | window of samples, transfer EWMA, RTT EWMA, counters, pause flag | probe loop, `record_transfer`, `get_snapshot`, pause/resume | the estimate follows the link and stays conservative; no probe competes with a transfer |
| Probe server (`ProbeServer`) | running flag, one thread per connection | echo, bandwidth probe | every probe is answered or its connection closed |
| Precision allocator (`backend/precision_allocator.py`) | none (a function) | `allocate` | within budget when feasible, floors kept, more important groups first |
| Adaptive quantiser (`backend/adaptive_quant.py`) | none | `quantize`, `dequantize` | a layer is read back as written |
| Token importance (`backend/token_importance.py`) | none | `compute` | scores in [0, 1] |
| Decode loop (both handlers of `decode_node.py`) | generated ids, cache length, tokens left | sanity step, loop | as many tokens as asked for; the cache covers the tokens before the last |
| Conversation (`run_interactive`) | history, turn counter, totals | commands, turn | history holds what was said; `/clear` restores the start |
| Legacy RPC (`pd_inference/rpc.py`) | pending calls | `call`, response thread, serve loop | each caller gets its own response, once |
| Partitioned stages (`pd_inference/model.py`, `utils.py`) | `DecodeStage._kv_table` | `init_kv`, `decode_step`, `clear_kv`, layer ranges | ranges tile the layers; no cache survives its request |
| KV container, configuration | none | conversions, parsing | |
| Mock network, network tools, evaluation scripts | virtual time; the traffic shaping of a test run | test drivers | |

### Interactions

```
 prefill node                                    decode node
 run_interactive / run_single_shot
   run_prefill_turn -- SocketClient == TCP ==> SocketServer -- handlers
     |   |                  kv_chunk ...           ChunkAssembler
     |   ChunkedSender ------------------------>     on_complete -> decode loop
     |       quantizer
     allocator <- snapshot <- NetworkProbeClient == TCP ==> ProbeServer
                                 probe thread, state machine
```

Each turn opens a connection of its own and closes it with a farewell message
(`op: "shutdown"`).  The server thread serves one connection at a time; while a
handler or a stream runs, nobody else reads the socket.  The probe thread runs
beside the turns; it shares the lock-protected estimate with the main thread,
and the flag `_bw_probes_paused` without a lock.

### Hard behaviours

* **Interleaving.** Sender, TCP and receiver run in parallel, and so do turns and
  the probe thread; the client may give up while the server is inside a handler.
* **Failure.** The connection breaks between any two messages; dequantising
  raises inside a callback that swallows it; handlers raise; the client's
  `finally` runs after any exception and speaks once more on the wire.
* **Ordering.** Layers travel by importance, so completeness cannot be told by
  layer index; the farewell means different things in command mode, in stream
  mode and in the handler that waits for parameters.
* **Stale state.** The sender captures its cache before a loop that replaces it;
  a pause flag is read before a probe that lasts seconds; old samples vote.
* **Numeric edges.** The last, shorter chunk; ties of the majority precision; the
  layer count after shedding; thresholds of the classification.

`PROJECT.json` lists each hazard at its line with the properties that watch it.

## 2. Plan

Modules are ordered by what matters most when it goes wrong.

| # | Module(s) | Content | State |
|---|---|---|---|
| 1 | `KVTransport`, `KVDelivery` | one ABKT stream and the all-or-nothing delivery it implements | done, proved |
| 2 | `LayerDrop` | the shedding loop, composed with the stream in `MCLayerDrop` and with the allocator in `TransferPlan` | done, proved with `TransferPlan` |
| 3 | `PDSession`, `PDTurns` | turns, both paths, the server's life cycle, the pause flag; abstract sessions | done, proved |
| 4 | `NetworkStateMachine` | voting over the sample window | done, proved |
| 5 | `DecodeLoop` | token counts, cache and mask of the loop both handlers share | done, proved |
| 6 | `NetworkProbe` | window, clamped EWMA, confidence; probe thread and turns on one link; extends `NetworkStateMachine` | done, proved |
| 7 | `PrecisionAllocator`, `TransferPlan` | floors, greedy upgrade, metadata; budget, shedding, second allocation, bytes sent | done, proved |
| 8 | `Conversation` | history, commands, turn counter; extends `DecodeLoop` | done, proved |
| 9 | `RpcLayer` | table of pending calls, timeouts, late and torn messages | done, proved |
| 10 | `KVLayout`, `PrefillStage`, `DecodeStage`, `ModelStages` | layer ranges, partial loading, masks, caches by request | done, proved |
| 11 | message framing, traffic shaping of the test tools, quantiser arithmetic | | not modelled, see 7 |

"Proved" means: every invariant and action property that a run of the module checks
is also the conclusion of a theorem.  Liveness is checked by TLC only (see 5).

## 3. The modules

```
 KVTransport --implements--> KVDelivery       PDSession --implements--> PDTurns
   ^ MCKVTransport, MCLayerDrop (+ LayerDrop)   ^ MCPDSession
 DecodeLoop <- Conversation <- MCConversation
 NetworkStateMachine <- NetworkProbe <- MCNetworkProbe
 PrecisionAllocator <- TransferPlan (+ LayerDrop) <- MCTransferPlan
 KVLayout <- PrefillStage, DecodeStage <- ModelStages <- MCModelStages
 RpcLayer <- MCRpcLayer
```

`<-` reads "is extended by".  The theorems stand in modules of their own:

| Module | About |
|---|---|
| `KVTransport_proof` | `KVTransport`, and that it implements `KVDelivery` |
| `PDSession_proof` | `PDSession`, and that it implements `PDTurns` |
| `NetworkProbe_proof` | `NetworkStateMachine`, `NetworkProbe`, the observer of `MCNetworkProbe` |
| `TransferPlan_proof` | `PrecisionAllocator`, `LayerDrop` as `TransferPlan` uses it, `TransferPlan` |
| `Conversation_proof` | `DecodeLoop`, `Conversation` |
| `ModelStages_proof` | `KVLayout`, `PrefillStage`, `DecodeStage`, `ModelStages` |
| `RpcLayer_proof` | `RpcLayer` |
| `InductionLemmas` | induction and recursion over the numbers; `FlattenSeq`, minima, maxima |

The `MC` modules hold constants, and
`MCNetworkProbe` also an observer.  Several modules have an input called the
*environment* (`env`, `penv`, `denv`): the circumstances a run starts in, so that
one run covers undisturbed and disturbed executions and a property can say for
which it holds.  Definitions marked `Mutant:` are plausible bugs; no behaviour
uses them (see 4).

### KVTransport: one ABKT stream

The stream begins when the server has read `run_decode_abkt` and ends when both
ends have left it.  A tensor is the precision its bytes are written in; a chunk
is a token span of a layer with the metadata it carries.

| Code | Model |
|---|---|
| position in `run_prefill_turn` / `send_all` | `spc`: `chunk`, `check`, `start`, `await`, `done`, `failed` |
| `layer_order`, loop variables | `order`, `li`, `pos` |
| `sent_layers`, `meta_sent`, `total_chunks` | `sentLayers`, `metaSent`, `totalChunks` |
| `self.precision_map`, `active_quantized`, `layer_cache` taken before the loop | `precMap`, `active`, `layerCache` |
| one iteration of the chunk loop | `SendChunk`, and `CheckBandwidth` after every `TIMING_CHECK_INTERVAL`-th chunk |
| `Counter.most_common` over a layer's groups | `LayerPrecision`, first group wins a tie |
| `_downgrade_precision_map` | `DowngradeMap` |
| the socket | `wire` and `connUp`; `ConnectionReset` drops a suffix, `ClientFailure` is `except` + `finally` |
| `_handle_abkt_stream` | `rpc`; `ReceiveChunk`, `ReceiveDecodeStart`, `ReceiveUnknown`, `StreamLost`, `AssemblyTimeout`, `DecodeDone`, `DecodeRaises` |
| `ChunkAssembler._buffers`, `assembled_kv` | `buf`, `kv`; `raised` when `on_complete` threw the assembled cache away |

A failed dequantisation (`ReceiveChunk(FALSE)`) empties the buffers and leaves
`kv` unset, as the swallowed exception does.  Which throughput the check
measures is a free choice, and so is the layer order.  `most_common` counts
groups and not tokens, so an empty group of a short prompt counts like any other.
Of the exceptions `_handle_abkt_stream` catches, those of the assembly and of the
decode loop are modelled, and those of a connection that is gone; that `recv_obj` or
`add_chunk` raises while the connection is up (a message that cannot be unpickled)
is not.

`KVDelivery` is the promise: a cache arrives whole or not at all, a successful
answer is only given for a delivered cache, and the request ends.  The
refinement maps `delivered` to the layers of `kv` that are whole, so a partial
or mixed cache would leave the abstract state space; and `delivered` never
becomes empty again, so that "once" is part of it.

`LayerDrop` computes what the shedding loop keeps and announces; `MCLayerDrop`
feeds both into a stream.

### PDSession: turns

One action per blocking operation of `run_prefill_turn` (`Connect`,
`ClientSend`, `PauseProbes`, `SendChunk`, `ResumeProbes`, `Receive`), `Raise`
for any exception in the `try` block, and `CloseTurn` for the `finally` clause.
On the server one action per message in each mode: `Accept`, `RunDecode`,
`RunDecodeAbkt`, `UnknownOp`, `Shutdown`, `Disconnected`, `DecodeParams`,
`DecodeFp16`, `ReceiveChunk`, `ReceiveDecodeStart`, `DecodeAbkt`.  `Reply` has
the two outcomes a send to a closed peer may have.  `CloseTurn` may lose what
the server has not read when replies are still unread, because closing such a
socket resets the connection.  The probe thread is `ProbeIteration`/`ProbeEnds`.
Chunks are counted; what is in them is the business of `KVTransport`.  `env` says
which paths the allocator may choose, how many turns the user asks for, and on
which node exceptions may happen.

`PDTurns` is the promise: turns one after the other, each of them answered, and
"ok" only for a turn the decode node decoded.  It allows the decode node to
decode a turn the user has been told has failed, which really happens.

### NetworkStateMachine and NetworkProbe: the estimate

`Classify` is `_classify_sample`, `Remember` the bounded deque, `Votes`
`_count_in_window`, `Resolve` `_resolve_state`, `Update` the whole `update`.

`NetworkProbe` extends it with what feeds it.  The probe thread (`lpc`) does
`LoopProbe` and, when the answer is there, `LoopSample`; every other iteration is
an `Echo` over the connection that is kept (`conn`).  The prefill thread (`mpc`)
forces a probe while no transfer was ever recorded (`ForceProbe`), transfers
(`StartTransfer`, which pauses the probes on the ABKT path) and records
(`Record`).  Both measure the same `link`, which changes (`LinkChanges`) and is
halved for whoever shares it; a measurement comes to what the link was when it
began or to what it is when it ends.  `window` is `_bw_window`; a sample of a
probe also carries the link it measured throughout, which only the property
`EstimateWithinLink` reads.

* A transfer counts with the bytes of the *uncompressed* cache over a time that
  includes the decode; `env.ratios` are the factors this comes to.
* `Effective` is `get_effective_bw` times `Scale`, in whole numbers.  The test for a
  divergence of more than 2.5 changes nothing: beyond it the branch returns the
  smaller value, which the other branch returns as well.
* An echo votes with the median of the window, whatever its age: one bandwidth
  sample is voted on again by every echo until the next probe.
* An echo on a connection the server has closed reads an empty answer and counts
  as a round trip of no time.
* `get_snapshot` reads everything under the lock and is therefore one step,
  `TakeSnapshot` of `TransferPlan`.

### PrecisionAllocator and TransferPlan: the budget

One step of `PrecisionAllocator` is one iteration of a loop of `allocate`:
`AddFloor` over the floors by depth, `Upgrade` in the order of the benefit,
`AddMetadata`; `AllFP16`, `StartFromInt2` and `BareInt2` are the other ways
through it.  Sizes are counted in quarters of a byte, so that an INT2 element
costs 1.  Where a prompt is shorter than `NUM_GROUPS`, the importance of an empty
group is NaN and the order of the sort is left open.

`TransferPlan` is what `run_prefill_turn` makes of it: `TakeSnapshot` turns the
estimate into a budget (quality floor first, then the 60 s cap), `Shed` drops
layers with `LayerDrop` when the first allocation is infeasible, and a second
allocation follows.  Then the path is chosen by the compression ratio (`FullSize`):
`PlanABKT` sends what the quantiser makes of the plan (`SentBytes`), `PlanFP16` the
cache as it was before anything was shed (`held`, `FP16Bytes`).  So where layers are
shed and the rest is all FP16, or nothing is left, everything is sent in FP16 after
all; `TransferTimeCapped` excepts that case (see 6).  `PlannedBytes` is the same at the
sizes the allocator reckons with.  `ImportanceRespected` is about what the allocator
*assigns*: the quantiser gives a layer the most common precision of its groups, so
what is *sent* for a more important group may be lower than for a less important one.

### DecodeLoop and Conversation: tokens

`handle_run_decode` and `run_decode_from_abkt` run the same loop (they differ in
printing, and in the repetition penalty, which is not modelled).  A token is its
position in the text, so a repeated or skipped cache entry shows.  `Begin` sets
up `generated` and `tokens_to_generate`, `Verify` is the sanity check that is also
the first decode step, `Step` one iteration; both do `Forward`, in which the
external model appends its input token to every layer of the `DynamicCache`.
`kept` are the layers that arrived: all of them on the FP16 path, any set after
layers were shed; a layer that did not arrive is an empty layer of the cache.
The prefill node always sends a first token.  The handlers also accept none, and
then feed the last prompt token a second time; the run `chat` covers both, and
`CacheFollowsText` is only about the first.

`Conversation` is `run_interactive` around it.  `StartTurn` reads a message, puts
`full_ids` together and hands it to the decode loop, whose steps are `DecodeTurn`.
The turn ends as `Answered`, `HandlerFailed` (the error reply has neither ids nor
text), `TransferFailed` (the error is the text of the turn), `PrefillFailed` (the
program ends) or `Interrupt`.  `screen` is what the user has seen.  Some facts
the model makes visible:

* An initial prompt that begins with `/` is read as a command: an unknown one and
  `/clear` again and again, because the turn counter stays at zero (`Ignored`, `Clear`),
  `/quit` once (`Quit`).
* `/clear` brings the initial prompt back, because it resets that counter.
* The text of a failed transfer becomes part of the history if there is a
  tokenizer, and the model is prompted with it in the next turn.
* With a chat template the model never sees earlier turns (see 6), unless the template
  raises: then the message is put behind the history (`FullIds` has both).
* A request for one token gets two and a request for none gets one: the first
  token and the sanity step do not ask the limit.

### RpcLayer: legacy RPC

`send_obj` is two sends without a lock, `SendLength` and `SendBytes`, so two callers
to one rank can tear each other's messages apart; the worker then crashes in
`recv`, because its `_check_alive` calls a function that does not exist and so
takes every caller for dead.  `StartCall` takes an id and enters the table,
`WaitExpires` and `GiveUp` are the two steps of a timeout between which an answer
may come, `ReceiveAnswer` takes the entry out under the lock, and `Deliver` sets
the response after it was released.

### ModelStages: partitioned execution

`KVLayout` has the helpers of `utils.py`.  A hidden state stands for the set of
tokens it depends on and the number of layers it has gone through; a cache entry
for a token of a prompt, the position it was given and the hidden state it is made
of.  So a padding token that leaks into a prompt, a request that is handed the row of
another, a layer run twice and a shifted position all show, without a number being
computed.

`PrefillStage` loads each stage (`Load`, with complete, missing and incomplete
checkpoints), runs the first as a whole (`ForwardWhole`) and the others layer by
layer (`ForwardLayer`, `ForwardEnd`).  The two differ in more than their steps.  The
first hands out hidden states that have been through the final norm if it has the last
layer, and `norms` counts that (`compute_logits` norms what it is given, `NormsInLogits`).
And in a model with RoPE (`penv.rope`) the layers of later stages are given no
`position_ids`, since `forward` makes them with the embeddings: their entries have no
position (`Unplaced`), and what such a layer computes is not compared with the model.
A stage that could load only the parameters
of its range raises when it is moved to the device (`"raised"`).  `DecodeStage` is
`run_full_decode` for several threads over the one cache table: `GetList` and
`StoreFresh` are two critical sections, `RunLayer` changes the shared list in
place, `EndStep` stores it again, and `Cancel` is a `clear_kv` from outside.  A layer
that returns no cache (`denv.returnsKV`; the same for `ForwardLayer` in `penv.returnsKV`)
leaves the list as it was, while `past_len` goes on counting.
`ModelStages` hands the caches of a batch, split by prompt, to the decoders where
one stage holds all layers.  `run_full_decode` feeds the last prompt token again,
which is then cached twice; the layer range `(0, 0)` loads the whole model and
gives back no cache of any layer.

## 4. Runs

| Run | Shows |
|---|---|
| `stream` | Three layers of three chunks, every layer order, slow or fast checks, failing dequantisation and a connection that may break anywhere: only whole caches delivered (`DeliveredWhole`), no wait for a cache that cannot come (`NoAssemblyTimeout`), empty buffers afterwards (`NothingLeftBehind`), precisions only lowered and never for sent layers (`DowngradeOnly`), an end on both nodes (`EventuallyOver`), and `KVDelivery` (`DeliverySpec`). |
| `session` | Two turns on either path with exceptions anywhere, and three undisturbed ABKT turns: no mutual wait (`NoMutualWait`), `PDTurns` with its liveness (`TurnsSpec`); undisturbed, each turn is answered "ok" and the server keeps listening (`AllTurnsServed`), and the probes run between turns (`AbktProbesResumed`). |
| `chat` | Conversations of one to three turns, every tokenizer and initial prompt (commands too), request and set of layers left, every way a turn ends, and `/clear`: the cache follows the text token by token (`CacheFollowsText`), the mask covers it unless layer 0 was shed (`MaskCoversKept`), requests for two tokens or more get exactly as many (`TokensAsAsked`), the prompt is the conversation on the screen (`PromptIsConversation`), and the initial prompt is sent once (`InitialPromptOnce`). |
| `plan` | Three layers of two groups, every ranking, twelve bandwidths: the upgrades stay within the budget (`PayloadWithinBudget`) and use it up (`NoUpgradeLeft`), and assign in order of importance (`ImportanceRespected`); what is announced can arrive (`AnnouncedCanArrive`), and what either path sends fits the 60 s cap at the allocator's sizes, metadata aside, unless the FP16 path is taken after layers were shed (`TransferTimeCapped`). |
| `rpc` | Two callers, three calls, timeouts, a worker that can be stopped: each caller gets the answer to its own request (`OwnAnswer`), no entry outlives its call (`NoPendingLeak`), every call ends that the code can end (`EveryCallEnds`). |
| `stage` | A batch of two prompts through one to three stages, then two threads decoding: stages together are the model (`StagesAreTheModel`: the final norm aside, and with RoPE the first stage's layers), caches are causal and each request gets its own prompt's, without padding (`OwnPromptCached`), each request decodes on its own tokens and, if nobody clears its cache and the layers return theirs, on its whole conversation (`ContextInStep`), no cache outlives its request (`NoCacheLeft`). |
| `probe` | The probe thread on a changing link, alone, with failing probes, and beside transfers that may raise: voting (`NeverTooOptimistic`, `ConvergesOnSteady`, `NoInstantRecovery`), the estimate's margin (`EstimateInMargin`, `EstimateWithinLink`), and a state that ends where the link is (`StateFollowsLink`). |
| `downgrade` | *Violated.* A downgrade does not reach the next layer. |
| `layerdrop` | *Violated.* With the announced count of the shedding loop a partial cache is delivered. |
| `shutdown` | *Violated.* One FP16 turn ends the server. |
| `floor` | *Violated.* Groups stay at INT2 with a budget of 1.3 times INT4. |
| `sent` | *Violated.* A feasible plan is sent in more bytes than its budget. |

Every passing run also checks one type invariant.  Every property of a passing
run has a mutant in `PROJECT.json`: a plausible bug in the code it is about, with
which the run fails.

Some properties are conjunctions of named parts that belong together:
`ContextInStep` is `OwnList`, `OwnTokens`, `PositionIsCacheLength` and `WholeContext`;
`OwnPromptCached` is `CausalCache` and `OwnPromptGiven`; `StagesAreTheModel` includes
`RunsOnlyLoaded`.

### Bounds

* **stream.** `SeqLen = 5`, `ChunkSize = 2`: two full chunks and a cut one per layer.
  The code's chunks are 16 to 256 tokens; nothing depends on the unit.
  `CheckInterval = 2` (code: a constant of `config.py`) puts checks in the middle of
  a layer and at its end.  `WireCap = 3` messages stand for the socket buffers:
  enough for the sender to be a layer ahead, small enough for it to block.
  `MCMaps` has a clear majority, a tie, and a layer at the bottom of the table.
* **session.** Three turns at most: a turn can meet what the one before left, and
  the one before that.  Two chunks: a stream stops before, between and after them.
* **chat.** Requests from -1 to 4 tokens cover the cases of the loop: no sanity step,
  one with nothing left, with exactly one, and iterations after it.  Three layers
  make layer 0, one other and several others distinguishable.  Prompts up to 10
  tokens are what three turns of two tokens amount to.
* **plan.** Prompts of 1, 4 and 5 tokens have an empty group, two equal groups and
  two unequal ones; two ranks of importance give ties and strict orders.  The
  bandwidths reach every branch: nothing fits, INT2 fits, the floor fits, the
  quality floor applies, the cap applies, FP16 fits.  `PerToken = 64` keeps the
  tensors large against their metadata, as they are in the code; the target and the cap
  of 2 and 60 seconds are the code's.
* **rpc.** Three calls from two callers: an answer can be late for its own call and
  arrive during the next one of the same caller and one of the other.
* **stage.** Three layers over one to three stages have even and uneven divisions;
  prompts of one and three tokens are padded; two new tokens make a second step on
  the result of the first; one outside `clear_kv` can fall anywhere.
* **probe.** `Bandwidths` and `Rtts` are on both sides of each threshold in MB/s and
  ms; the votes are the code's 2 of 3 and 4 of 5.  The window has 3 samples instead
  of 10 (its minimum and its median are still different), full confidence takes one
  transfer or two probes, decay takes two steps, and a bandwidth probe falls due
  every second iteration.  `Horizon = 2` samples is the distance `NoInstantRecovery`
  asks for.

### Fairness

`KVTransport` assumes weak fairness of `Sender` and `Receiver`: both are ordinary
threads that are never starved, and a broken connection is reported to them
(RST or FIN).  The code has a 600 s timeout on the client and none on the server,
so a peer that vanishes silently would hold the server thread; that hazard is
listed and not modelled.  `AssemblyTimeout` is the code's own 120 s wait.
`PDSession` assumes weak fairness of `ClientStep` and `ServerStep`; starting a
turn is the user's choice and not fair, nor is the probe thread.  `RpcLayer`
assumes it of each caller's steps, of the receiver thread and of the worker, and
`NetworkProbe` of the probe loop, which is a daemon thread that only sleeps a
bounded time between iterations.  Failures, link changes, transfers and user
input are never fair.  `DecodeLoop` and the stages end by counting; their
properties are safety properties.

`EveryCallEnds` is conditional on what the code can promise: with a timeout every
call ends; without one only a single caller that nobody stops the worker under.
`StateFollowsLink` is stated for probes that do not fail, beside no transfers and
with short round trips, since a forced pause can withhold samples for ever.

### Deadlock

`stream`, `session`, `chat` and `probe` check for deadlock.  `KVTransport` ends in
`Terminated`, which is only enabled when both ends have left, and a conversation
in `Over`.  In `PDSession` the probe thread never stops, so absence of deadlock
says little there: `NoMutualWait` and the liveness of `PDTurns` take its place.
`plan`, `floor` and `sent` do not check it because a plan ends; `rpc` because the bounded
calls end; `stage` because requests end or raise.

## 5. Proofs

| Theorem | Module | Statement |
|---|---|---|
| `TypeCorrect`, `OnlyDowngrades` | `KVTransport_proof` | `Spec => []TypeOK`, `Spec => DowngradeOnly` |
| `WholeDelivery`, `NothingLeft`, `NoTimeout` | `KVTransport_proof` | `Spec => []P` for `DeliveredWhole`, `NothingLeftBehind`, `NoAssemblyTimeout`, if `NumLayers = Cardinality(Layers)` (and `Layers # {}` for the last) |
| `DeliverySimulation` | `KVTransport_proof` | `Spec => Delivery!Init /\ [][Delivery!Next]_Delivery!vars`, under the same condition |
| `SessionType`, `NodesNeverBothWait` | `PDSession_proof` | `Spec => []P` for `TypeOK`, `NoMutualWait` |
| `EveryTurnServed`, `ProbesResumeWithTurn` | `PDSession_proof` | `Spec => []P` for `AllTurnsServed`, `AbktProbesResumed` |
| `TurnsSimulation` | `PDSession_proof` | `Spec => Session!Init /\ [][Session!Next]_Session!vars` |
| `StateMachineType`, `FastDrop`, `Convergence` | `NetworkProbe_proof` | `Spec => []P` for `TypeOK`, `NeverTooOptimistic`, `ConvergesOnSteady` |
| `ProbeFastDrop`, `ProbeConvergence`, `SlowRise` | `NetworkProbe_proof` | `MCSpec => []P` for the same two, `MCSpec => NoInstantRecovery` |
| `ProbeType`, `EstimateMargin`, `EstimateLink` | `NetworkProbe_proof` | `MCSpec => []P` for `ProbeTypeOK`, `EstimateInMargin`, `EstimateWithinLink` |
| `AllocationType`, `UpgradesWithinBudget`, `BudgetUsedUp`, `MoreImportantFirst` | `TransferPlan_proof` | `Spec => []P` for `AllocationTypeOK`, `PayloadWithinBudget`, `NoUpgradeLeft`, `ImportanceRespected` |
| `PlanTypes`, `PlanWithinBudget`, `PlanUsesBudget`, `PlanByImportance` | `TransferPlan_proof` | `PlanSpec => []P` for `TypeOK` and the last three above |
| `AnnouncedArrive`, `PlanInTime` | `TransferPlan_proof` | `PlanSpec => []P` for `AnnouncedCanArrive`, `TransferTimeCapped` |
| `LoopType`, `CacheInStep`, `MaskInStep`, `TokenCount` | `Conversation_proof` | `Spec => []P` for `TypeOK`, `CacheFollowsText`, `MaskCoversKept`, `TokensAsAsked` |
| `ChatTypes`, `ChatCache`, `ChatMask`, `ChatTokens` | `Conversation_proof` | `AnyPrompt => (ChatSpec => []P)` for `ChatTypeOK` and the three properties above |
| `InitialOnce`, `PromptFollowsScreen` | `Conversation_proof` | `AnyPrompt => (ChatSpec => []P)` for `InitialPromptOnce`, `PromptIsConversation` |
| `RpcType`, `EachItsOwnAnswer`, `TableKeptClean` | `RpcLayer_proof` | `Spec => []P` for `TypeOK`, `OwnAnswer`, `NoPendingLeak` |
| `StageTypes`, `StagesComputeTheModel`, `PromptCachedAlone` | `ModelStages_proof` | `Spec => []P` for `TypeOK`, `StagesAreTheModel`, `OwnPromptCached` |
| `DecodedInContext`, `NothingCached` | `ModelStages_proof` | `Spec => []P` for `ContextInStep`, `NoCacheLeft` |

Together they state every invariant and both action properties of the passing runs,
for every value of the constants that satisfies the assumptions.

Assumptions are the named `ASSUME`s of the modules.  Most only give a constant its
type: finite sets of layers and callers, positive sizes, maps over the layers, calls
with a budget in the naturals.  Those that say more:

* `VotesAssumption`: `DowngradeVotes + UpgradeVotes > UpgradeWindow` and votes that fit
  their windows; 2 of 3 and 4 of 5 in the code.
* `HorizonAssumption`: the observer looks back at least `UpgradeWindow - DowngradeWindow`
  samples.
* `SpeedsAssumption`: a link has at least 4 units of speed, so that half of a sample or
  of a link does not round to nothing; the unit of the model is free.
* `WholeModelAssumption`: the prefill node holds every layer of the model, which is how
  `prefill_node.py` builds the allocator's call (`prefill_layer_range` is `(0, 0)`).

Two conditions are written into the statements.  `NumLayers = Cardinality(Layers)`
says that as many layers are announced as are sent; the run `layerdrop` shows that
it is needed, and that the code breaks it when layers are shed.  `AnyPrompt` says
that prompts may have any length (`Prompts = Nat \ {0}`), since the length of a
prompt in a conversation is not an input.

**Delivery.** `DeliveredWhole` is not inductive: it says nothing of the wire or of
half-filled buffers.  The invariant describes both ends by a cursor (layer
position, token position).  The sender's is where its loop stands (one chunk
further while it checks the throughput).  Some receiver's cursor and a trail of
cursors exist such that each message on the wire is exactly the chunk that leads
from one cursor of the trail to the next, the trail ending in the sender's as
long as the connection is up; and the buffers hold, for every layer before the
receiver's cursor, pieces that tile the tokens in order and in the precision of
`layerCache`, and nothing else.  Receiving moves the receiver's cursor along the
trail, sending appends to it, a reset cuts it.  Then `AllReceived` can only be
true at the last chunk of the last layer: with fewer layers the buffers hold
fewer than `NumLayers` layers.  Metadata travels with the first chunk of a layer,
which a separate conjunct states through `metaSent`.  The same cursors show that
`decode_start` is only read after the last chunk, hence `NothingLeft` and
`NoTimeout`, and that every step is a step of `KVDelivery` or a stutter.
`OnlyDowngrades` needs the types alone: `DowngradeMap` maps each precision to itself
or the next lower one, and no other step writes `precMap`.

**Session.** The invariant `Inv` says, for each place `run_prefill_turn` can be in,
what may be in flight on the connection of the turn and where the server may be.
It holds for any number of turns: connections of earlier turns are closed by the
client, and the server finds a farewell or the end of the stream on them.
`ReportInv` adds which replies may be in flight; a `result` only for a turn whose
cache was decoded.  From both follows that every step of the session is a step of
`PDTurns` or a stutter.

Two more invariants count.  `CountInv` holds of every connection, those left behind
included: the chunks still on it and those the server has taken off it are no more
than the turn has sent, hence at most `NumChunks`, which is what the type of `chunks`
says.  `CalmInv` follows a session of ABKT turns in which nothing raises: the
connection of the turn is waiting in the backlog, served or left, every chunk sent is
on it or assembled, the server decodes only after `NumChunks` of them, and the probe is
paused exactly from the first chunk to `resume`.  No turn therefore ends in an error
or finds the server stopped (`EveryTurnServed`), and none leaves the probe paused
(`ProbesResumeWithTurn`).

**Voting.** `NeverTooOptimistic` is inductive with the type invariant: an update
appends one class; a majority for a class in the small window either includes the
new sample, which resolves to it or leaves a worse state, or was there before, when
the state was already not better and cannot have risen, because an upgrade needs
so many votes of a better class that the two sets of samples would have to overlap.
The lemmas bound how the voters of a window change when the deque moves by one.
The theorems hold for every set of speeds, so also for the medians
`NetworkProbe` feeds in: each of its steps leaves the machine alone or updates it with
a value of `Nat`, so `ProbeFastDrop` and `ProbeConvergence` repeat the argument for
`MCSpec`.  For `SlowRise`, `RecoveryInv` says that while fewer than
`UpgradeWindow - DowngradeWindow` samples came after a drop, the votes that caused it
are still among the last `DowngradeWindow + sinceDrop` samples; they leave too few of
the upgrade window for a rise.

**Estimate.** `ProbeInv` is the type invariant and two facts about measurements.
`BeganOK`: the speed a transfer begins with stays at least 2 until it is recorded, so
that what is recorded is positive.  `SamplesOK`: a sample marked with the link it was
taken on is no faster than that link.  `Base` is the least of the samples and the
average (`BaseIsLeast`), and `Effective` lies between 0.7 and 0.8 of it whatever the
confidence and the decay (`EffectiveMargin`); this is `EstimateMargin`, and with a
sample of the link as it is now, `EstimateLink`.

**Allocation.** An upgrade is only chosen if it is affordable, which gives the
budget.  For `NoUpgradeLeft` the invariant says that no entry visited so far can be
raised with what is left (`SpentInv`); later upgrades only leave less.  For the order
it says that of two comparable entries the more important one was visited first and
is at least as precise (`RankInv`): both start from the same floor, a visited entry
could not be raised further, and the same step costs the other one as much.

**Plan.** `TransferPlan` runs the allocator up to twice with the shedding in between;
the steps of the allocator keep its invariants there too, and the second call starts
them anew (`PlanAllocate`, `PlanShed`).  `AnnouncedArrive` rests on `CountInv`: the first
call announces what is held (`WholeModelAssumption`), and shedding `n` list entries
takes out at most `n` layers, so no more is announced than is sent.
`PlanInTime` counts bytes: upgrades stay within the budget, and the metadata added so
far and still to be added is at most that of the layers at INT2 (`MetaInv`).  More is
only used when not even INT2 fits (`TimeInv`); then layers are shed, and what is left
fits, since without any layer it would (`ShedFits`).  So the branch that gives up
shedding (`prefill_node.py:240`) is never taken.  On the FP16 path the plan uses the
FP16 size of the layers it is about, which is what is sent as long as these are all the
layers there were.

**Tokens.** The invariant `Inv` adds the lengths to what the properties say: the
cache of a kept layer is as long as the text, less its last token once there is a
first token; the mask of the last pass is that long; `left` is not negative for a
request the loop can meet, which `TokenCount` needs at the end.  `ForwardInv` is
the step both passes share.  A conversation keeps the same invariant: each
`StartTurn` establishes it anew, for a prompt of any length, and the steps of a
turn keep it by the lemmas about `DecodeLoop`.  Beside it stands that the screen
has at most as many entries as turns were started, so that `turns = 0` means an
empty screen, which is what `InitialOnce` rests on.  `PromptFollowsScreen` rests on
`SaidInv`: the history is the system prompt and then what the entries of the screen
amount to, one after the other, and the prompt of a turn begins with it.  The step is
that of `FlattenSeq` when an entry is appended (`FlattenSeqAppend`).

**RPC.** An id is used by one caller, once (`IdsInv`); its request is in the channel
at most once and only while unanswered (`RequestsInv`), so the answer recorded for it
is never overwritten; and an answer in the channel, about to be delivered or delivered
is the recorded one (`AnswersInv`).  `TableInv` says that a call whose answer was taken
has left the table.  Torn messages do not weaken this: the worker compares what it
received with what was announced and crashes.

**Stages.** The hidden states of a row are a recursion over the layers; what a position
has seen and how deep it is follows by induction over them.  `RangesFacts` is the closed
form of `build_layer_ranges`: the ranges are adjacent and cover all layers.
`PrefillInv` says that the hidden states are those of the whole model after the layers
that have run (`StageInv`), that only loaded layers run (`LoadInv`), and that the parts
of the stages are, layer for layer, what the whole model caches or nothing
(`PartsInv`), which flattening puts in the order of the layers; with RoPE this is said
of the layers of the first stage, and of the others only whose tokens they hold and
what these depend on (`RowOf`, `LaterStages`).  For the decode stage `DecodeInv` gives
every request lists of its own (`OwnList`) that hold its own tokens (`Own`, from what
`split_kv_cache_by_length` handed over) and says what holds of it at each place
(`Place`), the cleared cache of a finished request included.  While nobody cancelled
and the layers return their caches, the list is the one in the table and as long as
`pastLen` says (`Steady`); if in addition every layer came with a cache (`Sound`), the
layers that ran in this step know the conversation up to its token and the others up to
the one before (`Whole`).  `cancels = 0` is a hypothesis because `clear_kv` may take the
table's list away in the middle of a step, and `returnsKV` because otherwise the list
does not grow; `ContextInStep` states both.

**Induction over data.** What a recursive definition computes is proved where it is
needed, without the library's theorems for it, whose operator parameters the provers
cannot instantiate: `InductionLemmas` states induction for *sets* of numbers and
recursion for *functions* on `Nat`, from the well-foundedness of `<`, and derives what
the proofs use of `FlattenSeq`, `Min` and `Max`.

**Only model-checked.** Liveness: `EventuallyOver`, `EveryCallEnds`,
`StateFollowsLink`, and the fairness of the abstract modules (`DeliverySpec` and
`TurnsSpec`, of which the theorems prove the initial states and the steps).  The
prover has no rules for fairness and ENABLED.  The five runs that expect a violation
are counterexamples, which need no proof.

## 6. Disagreements between code and documentation

With a run that shows them:

1. **Mid-transfer downgrade has no effect** (`chunked_transfer.py:92`, run
   `downgrade`).  The new quantisation is stored in `active_quantized`, the loop
   sends from `layer_cache`.  That is also what keeps one layer in one precision:
   sending from the new cache at once would mix precisions within a layer (the
   mutant `NextChunkRequantized`).
2. **Layer count after shedding** (`prefill_node.py:235`, run `layerdrop`).
   `dropped_layers` has one entry per group, so `num_layers` falls too far and the
   assembler stops waiting early.
3. **Farewell stops the server** (`socket_transport.py:404`, run `shutdown`).  After
   an FP16 turn the connection is in command mode, where `shutdown` ends
   `serve_forever`.  After an ABKT turn the server has already closed it.
4. **Quality floor** (`precision_allocator.py:260`, run `floor`).  The comment at
   `prefill_node.py:179` wants every layer at INT4 or better and sets the budget for
   it, but the allocator starts the upper part of the model at INT2 and spends the
   budget on raising the first groups to FP16.
5. **More bytes than the budget** (`adaptive_quant.py:239`, run `sent`).  The
   allocator reckons with half and a quarter of a byte and a precision per group;
   the quantiser writes INT4 and INT2 as one byte per element and gives a layer the
   most common precision of its groups.

Met on the way; these have no run of their own:

* **The FP16 path after shedding** (`prefill_node.py:276-278`): the path is chosen by the
  compression ratio of the second allocation.  When every layer was shed, or the rest
  fits in FP16, that is 1.0, and `kv_cache.to_transport_dict()` is the whole cache, the
  layers shed to keep within the cap included; it then takes longer than
  `MAX_TRANSFER_TIME`, against the comment at line 190 ("Safety cap: don't let transfer
  time exceed practical limits").  `EveryTransferCapped` of `TransferPlan` states the cap
  without exception and does not hold: with `bw = 1` in the instance of `plan` all three
  layers are shed and sent.
* **Final norm** (`model.py:379`, `444-446`): a stage that runs the whole model up to its
  last layer hands out the last of the model's hidden states, which has been normed, and
  `compute_logits` norms it again; a last stage that ran its own layers hands out states
  that were not (`LogitsNormedOnce` of `PrefillStage`, which does not hold).
* **RoPE in later stages** (`model.py:256`, `304`): `position_ids` are made with the
  embeddings, so only for the first stage.  `StagesAreTheModel` leaves the layers of the
  others out in a model with RoPE.
* **Layers that return no cache** (`model.py:693`, `713`, `829`): the list of the request is
  not updated and `past_len` advances, so no decoded token is remembered and the
  positions run ahead of the cache; the class comment says that each request maintains
  its cache.  `CacheMaintained` of `DecodeStage` states it without the hypothesis
  `returnsKV` and does not hold.
* **Probes stay paused after a failed transfer** (`prefill_node.py:349`): they are
  resumed on the success path only.  Hence `AbktProbesResumed` is stated for
  undisturbed sessions and `StateFollowsLink` for a link without transfers.
* **The pause does not stop a running probe** (`network_probe.py:357`): a probe begun
  before it overlaps the transfer (`NoProbeDuringTransfer` of `PDSession`, which does
  not hold).  In `NetworkProbe` such a probe measures its share of the link.
* **Mask after shedding layer 0** (`decode_node.py:227`): the mask is as long as the
  cache of layer 0, whatever the others hold (`MaskCoversWindow` of `DecodeLoop`,
  which does not hold; `MaskCoversKept` leaves the case out).
* **Chat template** (`prefill_node.py:537`): with a template only the system prompt
  and the new message are sent; the docstring at line 98 speaks of the whole
  conversation.  `PromptIsConversation` leaves the case out.
* **Cache after a failed decode** (`model.py:843`): `clear_kv` runs after a successful
  `run_full_decode` only, so an exception leaves the cache in the table.
  `NoCacheLeft` is about requests that were decoded to their end.
* **Saturation** (`adaptive_quant.py:225-240`): `_quantize_per_axis` clamps the zero
  point to the range of the quantised values, so a slice whose values do not
  straddle zero saturates, and a constant slice comes back as zero.  The arithmetic
  is not modelled.
* **Samples older than a rise still vote**, so that a rise may be undone by the next
  sample; `NoInstantRecovery` is about the other direction.
* **Test tools**: `OscillationThread.stop` does not join the thread;
  `test_orchestrator.py:665` waits for a line "Transfer complete" that nothing
  prints; and where a SIGINT handler is installed the `KeyboardInterrupt` branch is
  not reached.

## 7. Not modelled

* **Arithmetic** of tensors: scales, zero points, attention weights, sampling,
  repetition penalty, importance scores.  Real numbers are out of TLC's reach; the
  models take every outcome that matters as a choice, or keep what a value depends
  on instead of the value.
* **Allocator baselines** (uniform and random): used by the evaluation only.
* **Message framing**: a message of the sockets is one step; a message of 4 GiB or
  more, which does not fit its length prefix, is one of the exceptions a client's
  step may raise.  In the RPC layer length and payload are separate steps, because
  nothing keeps two callers apart there.
* **A peer that vanishes silently** (`socket_transport.py:146`): nothing in the code
  would notice it on the server, and there is no claim to check.
* `warmup_connection`, `calibrate_with_transfer`, `budget_bytes` and `merge_kv_parts`,
  which have no caller, and `stop` of the probe client.
* The KV container, configuration and argument parsing: conversions and constants.
  The constants are the CONSTANTS of the modules.  More than one entry at the outer
  level of the cache dictionary (`{decode_node: ...}`): `to_abkt_dict` only builds one.
* The mock network, the traffic shaping and ssh drivers, the evaluation scripts and
  plots: test doubles and offline or external programs whose state no node reads.
* Totals, progress bars, printing: no property depends on them.
