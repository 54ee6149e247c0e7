---------------------------- MODULE KVTransport ----------------------------
(***************************************************************************)
(* One ABKT stream: ChunkedSender.send_all on the prefill node, the TCP    *)
(* connection, and SocketServer._handle_abkt_stream with its               *)
(* ChunkAssembler on the decode node.  The stream starts when the server   *)
(* has taken the run_decode_abkt message, which TCP delivers before any    *)
(* chunk, and ends when both ends have left it.                            *)
(*                                                                         *)
(* Tensors are abstracted to the precision their bytes are written in, and *)
(* a chunk to the span of tokens it carries.  One connection carries one   *)
(* request, so request ids are left out; to_abkt_dict builds a single      *)
(* decode node, so the outer loop over dnodes runs once.                   *)
(***************************************************************************)
EXTENDS Integers, Sequences, FiniteSets

CONSTANTS
  Layers,         \* layer indices of the quantised cache
  NumLayers,      \* "num_layers" of the run_decode_abkt message
  SeqLen,         \* tokens in the cache
  ChunkSize,      \* _adaptive_chunk_size(bandwidth)
  CheckInterval,  \* TIMING_CHECK_INTERVAL
  NumGroups,      \* NUM_GROUPS
  InitialMaps,    \* precision maps the allocator may hand over
  DequantOutcomes,\* {TRUE}, or {TRUE, FALSE} when dequantisation may raise
  WireCap         \* bound: messages TCP holds before a send blocks

Precision == {16, 8, 4, 2}
Groups == [1 .. NumGroups -> Precision]
NoMeta == 0                         \* the empty dict sent with later chunks
NoKV == <<>>                        \* assembled_kv.get(request_id) is None

ASSUME LayersAssumption == Layers \subseteq Nat /\ IsFiniteSet(Layers)
ASSUME NumLayersAssumption == NumLayers \in Int
ASSUME SizesAssumption == /\ SeqLen \in Nat \ {0}
                          /\ ChunkSize \in Nat \ {0}
                          /\ CheckInterval \in Nat \ {0}
                          /\ NumGroups \in Nat \ {0}
                          /\ WireCap \in Nat \ {0}
ASSUME MapsAssumption == InitialMaps \subseteq [Layers -> Groups]
ASSUME OutcomesAssumption == DequantOutcomes \subseteq BOOLEAN

VARIABLES
  spc,         \* where run_prefill_turn is in the streaming branch
  order,       \* layer_order: the layers by decreasing importance
  li,          \* index in order of the layer being sent
  pos,         \* start of the chunk to send (or just sent, when checking)
  totalChunks, \* total_chunks
  sentLayers,  \* sent_layers
  metaSent,    \* meta_sent
  precMap,     \* ChunkedSender.precision_map
  layerCache,  \* layer_cache: precision of each layer taken before the loop
  active,      \* active_quantized: the latest result of the quantiser
  connUp,      \* the connection is usable for both ends
  wire,        \* messages sent and not yet read by the server
  rpc,         \* where _handle_abkt_stream is
  buf,         \* ChunkAssembler._buffers[request_id]
  kv,          \* assembled_kv[request_id], set with assembly_done
  raised,      \* on_complete raised: the assembled cache is gone
  reply        \* the message sent back

sendVars == <<order, li, pos, totalChunks, sentLayers, metaSent, precMap,
              layerCache, active>>
recvVars == <<rpc, buf, kv, raised, reply>>
vars == <<spc, sendVars, connUp, wire, recvVars>>
-----------------------------------------------------------------------------
(* The quantiser and the downgrade table. *)

\* The precision the quantiser gives a whole layer: the most common of its
\* groups, the one met first on a tie (Counter.most_common).
LayerPrecision(groups) ==
  LET at(p)    == {g \in 1 .. NumGroups : groups[g] = p}
      better(g, h) == \/ Cardinality(at(groups[g])) > Cardinality(at(groups[h]))
                      \/ /\ Cardinality(at(groups[g])) = Cardinality(at(groups[h]))
                         /\ g <= h
  IN groups[CHOOSE g \in 1 .. NumGroups : \A h \in 1 .. NumGroups : better(g, h)]

Quantize(map) == [l \in Layers |-> LayerPrecision(map[l])]

Lower(p) == CASE p = 16 -> 8 [] p = 8 -> 4 [] OTHER -> 2

\* Mutant: the downgrade forgets which layers have already been sent.
DowngradeMapAll(map, remaining) ==
  [l \in Layers |-> [g \in 1 .. NumGroups |-> Lower(map[l][g])]]

DowngradeMap(map, remaining) ==
  [l \in Layers |->
     IF l \in remaining THEN [g \in 1 .. NumGroups |-> Lower(map[l][g])]
                        ELSE map[l]]
-----------------------------------------------------------------------------
(* Messages. *)

Chunk == [op: {"kv_chunk"}, layer: Layers, start: 0 .. SeqLen - 1,
          end: 1 .. SeqLen, total: {SeqLen}, prec: Precision,
          meta: Precision \cup {NoMeta}, last: BOOLEAN]
Control == [op: {"decode_start", "shutdown"}]

\* Mutant: the last chunk is not cut at the end of the sequence.
ChunkEndUncut == pos + ChunkSize

ChunkEnd == IF pos + ChunkSize < SeqLen THEN pos + ChunkSize ELSE SeqLen

\* Mutant: chunks are cut from the latest quantisation, while the metadata
\* is still the one captured before the loop.
NextChunkRequantized ==
  LET l == order[li] IN
  [op |-> "kv_chunk", layer |-> l, start |-> pos, end |-> ChunkEnd,
   total |-> SeqLen, prec |-> active[l],
   meta |-> IF l \in metaSent THEN NoMeta ELSE layerCache[l],
   last |-> ChunkEnd >= SeqLen]

NextChunk ==
  LET l == order[li] IN
  [op |-> "kv_chunk", layer |-> l, start |-> pos, end |-> ChunkEnd,
   total |-> SeqLen, prec |-> layerCache[l],
   meta |-> IF l \in metaSent THEN NoMeta ELSE layerCache[l],
   last |-> ChunkEnd >= SeqLen]

Piece == [start: 0 .. SeqLen - 1, end: 1 .. SeqLen, prec: Precision]
LayerInfo == [chunks: Seq(Piece), total: {SeqLen},
              meta: Precision \cup {NoMeta}]
-----------------------------------------------------------------------------
\* What _sort_layers returns, the importance being any: a permutation.
Orders == {o \in [1 .. Cardinality(Layers) -> Layers] :
             /\ \A i, j \in 1 .. Cardinality(Layers) : o[i] = o[j] => i = j
             /\ \A l \in Layers : \E i \in 1 .. Cardinality(Layers) : o[i] = l}

Init ==
  /\ spc = IF Layers = {} THEN "start" ELSE "chunk"
  /\ order \in Orders
  /\ li = 1 /\ pos = 0 /\ totalChunks = 0
  /\ sentLayers = {} /\ metaSent = {}
  /\ precMap \in InitialMaps
  /\ layerCache = Quantize(precMap)
  /\ active = Quantize(precMap)
  /\ connUp = TRUE /\ wire = <<>>
  /\ rpc = "stream" /\ buf = <<>> /\ kv = NoKV /\ raised = FALSE /\ reply = "none"

\* The end of an iteration over the chunks of a layer, and of the layer.
Advance ==
  IF ChunkEnd < SeqLen
  THEN /\ pos' = ChunkEnd
       /\ spc' = "chunk"
       /\ UNCHANGED <<li, sentLayers>>
  ELSE /\ pos' = 0
       /\ li' = li + 1
       /\ sentLayers' = sentLayers \cup {order[li]}
       /\ spc' = IF li = Cardinality(Layers) THEN "start" ELSE "chunk"

SendChunk ==
  /\ spc = "chunk"
  /\ connUp
  /\ Len(wire) < WireCap
  /\ wire' = Append(wire, NextChunk)
  /\ metaSent' = metaSent \cup {order[li]}
  /\ totalChunks' = totalChunks + 1
  /\ IF totalChunks' % CheckInterval = 0
     THEN spc' = "check" /\ UNCHANGED <<li, pos, sentLayers>>
     ELSE Advance
  /\ UNCHANGED <<order, precMap, layerCache, active, connUp, recvVars>>

\* The throughput check that follows every CheckInterval-th chunk.  slow is
\* what the clock says: at least 0.1 s elapsed, and less than SLOW_THRESHOLD
\* of the expected bandwidth reached.
CheckBandwidth(slow) ==
  /\ spc = "check"
  /\ IF slow
     THEN /\ precMap' = DowngradeMap(precMap, Layers \ sentLayers)
          /\ active' = Quantize(precMap')
     ELSE UNCHANGED <<precMap, active>>
  /\ Advance
  /\ UNCHANGED <<order, totalChunks, metaSent, layerCache, connUp, wire, recvVars>>

SendDecodeStart ==
  /\ spc = "start"
  /\ connUp
  /\ Len(wire) < WireCap
  /\ wire' = Append(wire, [op |-> "decode_start"])
  /\ spc' = "await"
  /\ UNCHANGED <<sendVars, connUp, recvVars>>

ReceiveReply ==
  /\ spc = "await"
  /\ reply # "none"
  /\ spc' = "done"
  /\ UNCHANGED <<sendVars, connUp, wire, recvVars>>

\* A send or receive on a broken connection raises.
ConnectionFailure ==
  /\ spc \in {"chunk", "start", "await"}
  /\ ~connUp
  /\ spc' = "failed"
  /\ UNCHANGED <<sendVars, connUp, wire, recvVars>>

\* Anything else in the try block raises (the quantiser, the 600 s socket
\* timeout): the finally clause calls client.close(), which sends a shutdown
\* message and closes the connection.
ClientFailure ==
  /\ spc \in {"chunk", "check", "start", "await"}
  /\ connUp
  /\ spc' = "failed"
  /\ connUp' = FALSE
  /\ wire' = Append(wire, [op |-> "shutdown"])
  /\ UNCHANGED <<sendVars, recvVars>>

\* The network drops the connection: what the server has not read is lost
\* from some point on.
ConnectionReset ==
  /\ connUp
  /\ connUp' = FALSE
  /\ \E n \in 0 .. Len(wire) : wire' = SubSeq(wire, 1, n)
  /\ UNCHANGED <<spc, sendVars, recvVars>>
-----------------------------------------------------------------------------
(* The decode node. *)

IsComplete(info) ==
  \A t \in 0 .. info.total - 1 :
    \E i \in DOMAIN info.chunks : info.chunks[i].start <= t /\ t < info.chunks[i].end

\* The buffers after add_chunk has stored message m: a layer seen for the
\* first time takes its length and metadata from this chunk.
Stored(m) ==
  LET new  == [chunks |-> <<>>, total |-> m.total, meta |-> m.meta]
      old  == IF m.layer \in DOMAIN buf THEN buf[m.layer] ELSE new
      piece == [start |-> m.start, end |-> m.end, prec |-> m.prec]
  IN [l \in DOMAIN buf \cup {m.layer} |->
        IF l = m.layer THEN [old EXCEPT !.chunks = Append(old.chunks, piece)]
                       ELSE buf[l]]

\* Mutants: no wait for the announced number of layers; a wait for one more.
AllReceivedNoWait(m, b) == m.last /\ \A l \in DOMAIN b : IsComplete(b[l])
AllReceivedOneMore(m, b) ==
  /\ m.last
  /\ NumLayers > 0 => Cardinality(DOMAIN b) > NumLayers
  /\ \A l \in DOMAIN b : IsComplete(b[l])

AllReceived(m, b) ==
  /\ m.last
  /\ NumLayers > 0 => Cardinality(DOMAIN b) >= NumLayers
  /\ \A l \in DOMAIN b : IsComplete(b[l])

\* kv holds, per layer, the pieces _assemble concatenates in order of their
\* start and the metadata they are dequantised with.
\* A chunk that cannot be read or stored (recv_obj or add_chunk raises while
\* the connection is up) ends the stream as well; that is left out.
ReceiveChunk(dequantized) ==
  /\ rpc = "stream"
  /\ wire # <<>>
  /\ Head(wire).op = "kv_chunk"
  /\ wire' = Tail(wire)
  /\ LET b == Stored(Head(wire)) IN
     IF AllReceived(Head(wire), b)
     THEN /\ buf' = <<>>
          /\ kv' = IF dequantized THEN b ELSE kv
          /\ raised' = (raised \/ ~dequantized)
     ELSE buf' = b /\ UNCHANGED <<kv, raised>>
  /\ UNCHANGED <<spc, sendVars, connUp, rpc, reply>>

\* decode_start: the server thread waits for assembly_done, for 120 s.
ReceiveDecodeStart ==
  /\ rpc = "stream"
  /\ wire # <<>>
  /\ Head(wire).op = "decode_start"
  /\ wire' = Tail(wire)
  /\ rpc' = "waiting"
  /\ UNCHANGED <<spc, sendVars, connUp, buf, kv, raised, reply>>

\* A shutdown read in stream mode is an unknown op and is skipped.
ReceiveUnknown ==
  /\ rpc = "stream"
  /\ wire # <<>>
  /\ Head(wire).op = "shutdown"
  /\ wire' = Tail(wire)
  /\ UNCHANGED <<spc, sendVars, connUp, recvVars>>

\* Mutant: the stream is left without cancelling the request.
LeaveStreamNoCancel(answer) ==
  /\ rpc' = "closed"
  /\ reply' = answer
  /\ UNCHANGED <<spc, sendVars, connUp, wire, buf, kv, raised>>

\* Every way out of the stream cancels the request and closes the client.
LeaveStream(answer) ==
  /\ rpc' = "closed"
  /\ buf' = <<>>
  /\ reply' = answer
  /\ UNCHANGED <<spc, sendVars, connUp, wire, kv, raised>>

\* Mutants: the decode result is sent for a cache that never arrived; a lost
\* connection does not end the receive loop.
DecodeUnassembled == rpc = "waiting" /\ LeaveStream("ok")
StreamKept == rpc = "stream" /\ wire = <<>> /\ ~connUp /\ UNCHANGED vars

DecodeDone == rpc = "waiting" /\ kv # NoKV /\ LeaveStream("ok")
DecodeRaises == rpc = "waiting" /\ kv # NoKV /\ LeaveStream("error")
AssemblyTimeout == rpc = "waiting" /\ kv = NoKV /\ LeaveStream("error")
StreamLost == rpc = "stream" /\ wire = <<>> /\ ~connUp /\ LeaveStream("none")

Terminated == spc \in {"done", "failed"} /\ rpc = "closed" /\ UNCHANGED vars

Sender == SendChunk \/ (\E slow \in BOOLEAN : CheckBandwidth(slow))
          \/ SendDecodeStart \/ ReceiveReply \/ ConnectionFailure
Receiver == (\E d \in DequantOutcomes : ReceiveChunk(d)) \/ ReceiveDecodeStart
            \/ ReceiveUnknown \/ DecodeDone \/ DecodeRaises
            \/ AssemblyTimeout \/ StreamLost

Next == Sender \/ Receiver \/ ClientFailure \/ ConnectionReset \/ Terminated

Spec == Init /\ [][Next]_vars

\* Both threads keep running, and a TCP peer that is gone is noticed.
FairSpec == Spec /\ WF_vars(Sender) /\ WF_vars(Receiver)
-----------------------------------------------------------------------------
(* Properties. *)

\* Types: the sender's cursor stays inside the cache, and both ends hold
\* well-formed messages and buffers.
TypeOK ==
  /\ spc \in {"chunk", "check", "start", "await", "done", "failed"}
  /\ order \in Orders
  /\ li \in 1 .. Cardinality(Layers) + 1
  /\ pos \in 0 .. SeqLen - 1
  /\ totalChunks \in Nat
  /\ sentLayers \subseteq Layers /\ metaSent \subseteq Layers
  /\ precMap \in [Layers -> Groups]
  /\ layerCache \in [Layers -> Precision]
  /\ active \in [Layers -> Precision]
  /\ connUp \in BOOLEAN
  /\ wire \in Seq(Chunk \cup Control)
  /\ rpc \in {"stream", "waiting", "closed"}
  /\ DOMAIN buf \subseteq Layers /\ \A l \in DOMAIN buf : buf[l] \in LayerInfo
  /\ DOMAIN kv \subseteq Layers /\ \A l \in DOMAIN kv : kv[l] \in LayerInfo
  /\ raised \in BOOLEAN
  /\ reply \in {"none", "ok", "error"}

\* An assembled layer is whole when its pieces tile the tokens without a gap
\* or an overlap, and every piece was written in the precision the metadata
\* says it is to be read in (dequantize reads missing metadata as 16 bits).
ReadAs(meta) == IF meta = NoMeta THEN 16 ELSE meta
Whole(info) ==
  /\ IsComplete(info)
  /\ \A i, j \in DOMAIN info.chunks :
       i < j => info.chunks[i].end <= info.chunks[j].start
  /\ \A i \in DOMAIN info.chunks : info.chunks[i].prec = ReadAs(info.meta)

\* The decode loop never reads a partial cache: what add_chunk hands to
\* on_complete is every layer that was quantised, each whole, whatever the
\* layer order, the downgrades and the moment the connection broke.
DeliveredWhole == kv # NoKV => DOMAIN kv = Layers /\ \A l \in Layers : Whole(kv[l])

\* The 120 s wait runs out only when the assembled cache could not be
\* dequantised: when decode_start is read the cache has been assembled.
NoAssemblyTimeout == rpc = "waiting" => kv # NoKV \/ raised

\* The assembler's buffer is empty once the server left the stream or waits
\* for the assembly: no request leaves chunks behind.
NothingLeftBehind == rpc \in {"waiting", "closed"} => buf = <<>>

\* Precisions are only ever lowered, and never for a layer already sent.
DowngradeOnly ==
  [][\A l \in Layers : \A g \in 1 .. NumGroups :
       /\ precMap'[l][g] <= precMap[l][g]
       /\ l \in sentLayers => precMap'[l][g] = precMap[l][g]]_vars

\* Documented in the ChunkedSender docstring: layers not yet started when the
\* bandwidth drops are sent at the lowered precision.
DowngradeTakesEffect ==
  [][(Len(wire') > Len(wire) /\ wire'[Len(wire')].op = "kv_chunk"
      /\ wire'[Len(wire')].start = 0)
        => wire'[Len(wire')].prec = active[wire'[Len(wire')].layer]]_vars

\* Every turn ends on both nodes, however the connection behaves.
EventuallyOver == <>(spc \in {"done", "failed"} /\ rpc = "closed")

\* The stream implements all-or-nothing delivery.
Delivery == INSTANCE KVDelivery WITH
  delivered <- {l \in DOMAIN kv : Whole(kv[l])},
  answer <- IF rpc # "closed" THEN "none"
            ELSE IF reply = "none" THEN "abandoned" ELSE reply
DeliverySpec == Delivery!Spec
=============================================================================
