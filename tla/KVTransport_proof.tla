------------------------- MODULE KVTransport_proof -------------------------
(***************************************************************************)
(* Proofs about KVTransport for every cache, chunk size, check interval,   *)
(* downgrade and loss of the connection: types, downgrades, and that the   *)
(* decode node only ever decodes from a whole cache (DeliveredWhole, when  *)
(* the announced number of layers is the number of layers sent).           *)
(*                                                                         *)
(* Both ends are described by a cursor, a layer position and a token       *)
(* position.  The inductive invariant says that the messages on the wire   *)
(* are exactly the chunks between the receiver's cursor and the sender's,  *)
(* and that the buffers hold exactly what lies before the receiver's.      *)
(***************************************************************************)
EXTENDS KVTransport, InductionLemmas, FiniteSetTheorems, TLAPS

N == Cardinality(Layers)

\* The number of layers is a natural number.
LEMMA NType == N \in Nat
BY LayersAssumption, FS_CardinalityType DEF N

\* The quantiser always finds a most common precision among the groups.
LEMMA LayerPrecisionType ==
  ASSUME NEW groups \in Groups
  PROVE  LayerPrecision(groups) \in Precision
<1> DEFINE at(p) == {g \in 1 .. NumGroups : groups[g] = p}
           count(g) == Cardinality(at(groups[g]))
           better(g, h) == \/ count(g) > count(h)
                           \/ count(g) = count(h) /\ g <= h
           G == 1 .. NumGroups
<1>1. \A g \in G : count(g) \in Nat /\ count(g) <= NumGroups
  <2> SUFFICES ASSUME NEW g \in G
               PROVE  count(g) \in Nat /\ count(g) <= NumGroups
    OBVIOUS
  <2>1. IsFiniteSet(G) /\ Cardinality(G) = NumGroups
    BY FS_Interval, SizesAssumption
  <2>2. at(groups[g]) \in SUBSET G
    OBVIOUS
  <2>3. QED
    BY <2>1, <2>2, FS_Subset, FS_CardinalityType
<1> HIDE DEF count
<1> DEFINE Slack == {NumGroups - count(g) : g \in G}
<1>2. Slack \subseteq Nat /\ Slack # {}
  BY <1>1, SizesAssumption
<1>3. PICK s \in Slack : \A y \in Slack : s <= y
  BY <1>2, LeastElement
<1> DEFINE Winners == {g \in G : NumGroups - count(g) = s}
<1>4. Winners \subseteq Nat /\ Winners # {}
  OBVIOUS
<1>5. PICK w \in Winners : \A y \in Winners : w <= y
  BY <1>4, LeastElement
<1>6. \A h \in G : better(w, h)
  <2> SUFFICES ASSUME NEW h \in G PROVE better(w, h)
    OBVIOUS
  <2>1. w \in G /\ count(w) \in Nat /\ count(h) \in Nat
    BY <1>1
  <2>2. s = NumGroups - count(w) /\ s <= NumGroups - count(h)
    BY <1>3
  <2>3. CASE count(w) > count(h)
    BY <2>3
  <2>4. CASE count(w) = count(h)
    <3>1. h \in Winners
      BY <2>2, <2>4
    <3>2. QED
      BY <3>1, <2>4, <1>5
  <2>5. QED
    BY <2>1, <2>2, <2>3, <2>4, SizesAssumption
<1>7. \E g \in G : \A h \in G : better(g, h)
  BY <1>6
<1>8. (CHOOSE g \in G : \A h \in G : better(g, h)) \in G
  BY <1>7
<1> USE DEF count
<1>9. QED
  BY <1>8 DEF LayerPrecision, Groups

\* Hence the quantiser gives every layer one of the four precisions, and a
\* downgraded map is again a precision map.
LEMMA QuantizeType ==
  ASSUME NEW map \in [Layers -> Groups]
  PROVE  Quantize(map) \in [Layers -> Precision]
BY LayerPrecisionType DEF Quantize

LEMMA DowngradeType ==
  ASSUME NEW map \in [Layers -> Groups], NEW R
  PROVE  DowngradeMap(map, R) \in [Layers -> Groups]
BY DEF DowngradeMap, Groups, Precision, Lower
-----------------------------------------------------------------------------
(* The sender's cursor. *)

\* A layer and a chunk of it remain to be sent while the sender is in its
\* loop, and nothing remains once it left the loop.
CursorOK ==
  /\ spc \in {"chunk", "check"} => li <= N
  /\ spc \in {"start", "await", "done"} => li = N + 1 /\ pos = 0

TypeInv == TypeOK /\ CursorOK

LEMMA EndType ==
  ASSUME pos \in 0 .. SeqLen - 1
  PROVE  /\ ChunkEnd \in 1 .. SeqLen
         /\ pos < ChunkEnd
         /\ ChunkEnd < SeqLen => ChunkEnd \in 0 .. SeqLen - 1
BY SizesAssumption DEF ChunkEnd

LEMMA TypeInit == Init => TypeInv
<1> SUFFICES ASSUME Init PROVE TypeInv
  OBVIOUS
<1> USE NType
<1>1. precMap \in [Layers -> Groups]
  BY MapsAssumption DEF Init
<1>2. layerCache \in [Layers -> Precision] /\ active \in [Layers -> Precision]
  BY <1>1, QuantizeType DEF Init
<1>3. Layers = {} <=> N = 0
  BY LayersAssumption, FS_EmptySet DEF N
<1>4. raised \in BOOLEAN
  BY DEF Init
<1>5. QED
  BY <1>1, <1>2, <1>3, <1>4, SizesAssumption DEF Init, TypeInv, TypeOK, CursorOK, N, NoKV

\* Moving past a chunk keeps the cursor well placed.
LEMMA AdvanceType ==
  ASSUME TypeInv, spc \in {"chunk", "check"}, Advance
  PROVE  /\ spc' \in {"chunk", "start"}
         /\ li' \in 1 .. N + 1
         /\ pos' \in 0 .. SeqLen - 1
         /\ sentLayers' \subseteq Layers
         /\ spc' = "chunk" => li' <= N
         /\ spc' = "start" => li' = N + 1 /\ pos' = 0
<1>1. pos \in 0 .. SeqLen - 1 /\ li \in 1 .. N /\ order[li] \in Layers
  BY NType DEF TypeInv, TypeOK, CursorOK, Orders, N
<1>2. QED
  BY <1>1, NType, EndType, SizesAssumption
     DEF Advance, TypeInv, TypeOK, CursorOK, N

\* What the sender puts on the wire is a well-formed chunk.
LEMMA NextChunkType ==
  ASSUME TypeInv, spc = "chunk"
  PROVE  NextChunk \in Chunk /\ order[li] \in Layers
<1>1. pos \in 0 .. SeqLen - 1 /\ li \in 1 .. N
  BY NType DEF TypeInv, TypeOK, CursorOK, N
<1>4. order \in [1 .. N -> Layers]
  BY DEF TypeInv, TypeOK, Orders, N
<1>2. layerCache[order[li]] \in Precision
  BY <1>1, <1>4 DEF TypeInv, TypeOK
<1>3. QED
  BY <1>1, <1>4, <1>2, EndType, SizesAssumption DEF NextChunk, Chunk

\* Storing a chunk gives well-formed buffers.
LEMMA StoredType ==
  ASSUME TypeInv, NEW m \in Chunk
  PROVE  /\ DOMAIN Stored(m) = DOMAIN buf \cup {m.layer}
         /\ DOMAIN Stored(m) \subseteq Layers
         /\ \A l \in DOMAIN Stored(m) : Stored(m)[l] \in LayerInfo
<1> DEFINE new == [chunks |-> <<>>, total |-> m.total, meta |-> m.meta]
           old == IF m.layer \in DOMAIN buf THEN buf[m.layer] ELSE new
           piece == [start |-> m.start, end |-> m.end, prec |-> m.prec]
<1>1. piece \in Piece /\ new \in LayerInfo /\ m.layer \in Layers
  BY DEF LayerInfo, Piece, Chunk
<1>4. old \in LayerInfo
  BY <1>1 DEF TypeInv, TypeOK
<1>3. Stored(m) = [l \in DOMAIN buf \cup {m.layer} |->
                     IF l = m.layer
                     THEN [old EXCEPT !.chunks = Append(old.chunks, piece)]
                     ELSE buf[l]]
  BY DEF Stored
<1> HIDE DEF old, piece, new
<1>2. [old EXCEPT !.chunks = Append(old.chunks, piece)] \in LayerInfo
  <2>1. old.chunks \in Seq(Piece)
    BY <1>4 DEF LayerInfo
  <2>2. Append(old.chunks, piece) \in Seq(Piece)
    BY <1>1, <2>1
  <2>3. QED
    BY <1>4, <2>2 DEF LayerInfo
<1>5. QED
  BY <1>1, <1>2, <1>3 DEF TypeInv, TypeOK
-----------------------------------------------------------------------------
(* Type correctness. *)

\* Every step keeps the types and the cursor.
LEMMA TypeStep == TypeInv /\ [Next]_vars => TypeInv'
<1> SUFFICES ASSUME TypeInv, [Next]_vars PROVE TypeInv'
  OBVIOUS
<1> USE NType
<1>1. CASE SendChunk
  <2>1. NextChunk \in Chunk /\ order[li] \in Layers
    BY <1>1, NextChunkType DEF SendChunk
  <2>2. wire' \in Seq(Chunk \cup Control)
    BY <1>1, <2>1 DEF SendChunk, TypeInv, TypeOK
  <2>3. metaSent' \subseteq Layers /\ totalChunks' \in Nat
    BY <1>1, <2>1 DEF SendChunk, TypeInv, TypeOK
  <2>4. CASE Advance
    <3>1. UNCHANGED <<order, precMap, layerCache, active, connUp, recvVars>>
      BY <1>1 DEF SendChunk
    <3>2. QED
      BY <2>2, <2>3, <2>4, <3>1, <1>1, AdvanceType
         DEF SendChunk, TypeInv, TypeOK, CursorOK, recvVars, N
  <2>5. CASE spc' = "check" /\ UNCHANGED <<li, pos, sentLayers>>
    BY <2>2, <2>3, <2>5, <1>1 DEF SendChunk, TypeInv, TypeOK, CursorOK, recvVars
  <2>6. QED
    BY <1>1, <2>4, <2>5 DEF SendChunk
<1>2. ASSUME NEW slow \in BOOLEAN, CheckBandwidth(slow)
      PROVE  TypeInv'
  <2>1. precMap' \in [Layers -> Groups] /\ active' \in [Layers -> Precision]
    BY <1>2, DowngradeType, QuantizeType DEF CheckBandwidth, TypeInv, TypeOK
  <2>2. QED
    BY <1>2, <2>1, AdvanceType
       DEF CheckBandwidth, TypeInv, TypeOK, CursorOK, recvVars, N
<1>3. CASE SendDecodeStart
  <2>1. wire' \in Seq(Chunk \cup Control)
    BY <1>3 DEF SendDecodeStart, TypeInv, TypeOK, Control
  <2>2. QED
    BY <1>3, <2>1 DEF SendDecodeStart, TypeInv, TypeOK, CursorOK, sendVars, recvVars
<1>4. CASE ReceiveReply
  BY <1>4 DEF ReceiveReply, TypeInv, TypeOK, CursorOK, sendVars, recvVars
<1>5. CASE ConnectionFailure
  BY <1>5 DEF ConnectionFailure, TypeInv, TypeOK, CursorOK, sendVars, recvVars
<1>6. CASE ClientFailure
  <2>1. wire' \in Seq(Chunk \cup Control)
    BY <1>6 DEF ClientFailure, TypeInv, TypeOK, Control
  <2>2. QED
    BY <1>6, <2>1 DEF ClientFailure, TypeInv, TypeOK, CursorOK, sendVars, recvVars
<1>7. CASE ConnectionReset
  <2>1. wire' \in Seq(Chunk \cup Control)
    BY <1>7 DEF ConnectionReset, TypeInv, TypeOK
  <2>2. QED
    BY <1>7, <2>1 DEF ConnectionReset, TypeInv, TypeOK, CursorOK, sendVars, recvVars
<1>8. ASSUME NEW d \in DequantOutcomes, ReceiveChunk(d)
      PROVE  TypeInv'
  <2> DEFINE b == Stored(Head(wire))
  <2>1. Head(wire) \in Chunk /\ wire' \in Seq(Chunk \cup Control)
    BY <1>8 DEF ReceiveChunk, TypeInv, TypeOK, Control
  <2>2. DOMAIN b \subseteq Layers /\ \A l \in DOMAIN b : b[l] \in LayerInfo
    BY <2>1, StoredType
  <2>3. /\ buf' = b \/ buf' = <<>>
        /\ kv' = b \/ kv' = kv
    BY <1>8 DEF ReceiveChunk
  <2> HIDE DEF b
  <2>4. /\ DOMAIN buf' \subseteq Layers /\ \A l \in DOMAIN buf' : buf'[l] \in LayerInfo
        /\ DOMAIN kv' \subseteq Layers /\ \A l \in DOMAIN kv' : kv'[l] \in LayerInfo
    BY <2>2, <2>3 DEF TypeInv, TypeOK
  <2>5. QED
    BY <1>8, <2>1, <2>4 DEF ReceiveChunk, TypeInv, TypeOK, CursorOK, sendVars
<1>9. CASE ReceiveDecodeStart
  BY <1>9 DEF ReceiveDecodeStart, TypeInv, TypeOK, CursorOK, sendVars
<1>10. CASE ReceiveUnknown
  BY <1>10 DEF ReceiveUnknown, TypeInv, TypeOK, CursorOK, sendVars, recvVars
<1>11. ASSUME NEW a \in {"ok", "error", "none"}, LeaveStream(a)
       PROVE  TypeInv'
  BY <1>11 DEF LeaveStream, TypeInv, TypeOK, CursorOK, sendVars
<1>12. CASE UNCHANGED vars
  BY <1>12 DEF vars, TypeInv, TypeOK, CursorOK, sendVars, recvVars
<1>13. QED
  BY <1>1, <1>2, <1>3, <1>4, <1>5, <1>6, <1>7, <1>8, <1>9, <1>10, <1>11, <1>12
     DEF Next, Sender, Receiver, DecodeDone, DecodeRaises, AssemblyTimeout,
         StreamLost, Terminated

\* The sender never runs past the cache, and messages and buffers are always
\* well formed, whatever the constants.
THEOREM TypeCorrect == Spec => []TypeOK
<1>1. Init => TypeInv
  BY TypeInit
<1>2. TypeInv /\ [Next]_vars => TypeInv'
  BY TypeStep
<1>3. TypeInv => TypeOK
  BY DEF TypeInv
<1>4. QED
  BY <1>1, <1>2, <1>3, PTL DEF Spec

\* The downgrade table never raises a precision, and a check downgrades only
\* the layers that were not sent yet: a layer on the wire keeps the precision
\* its receiver was told.
THEOREM OnlyDowngrades == Spec => DowngradeOnly
<1> DEFINE Down == \A l \in Layers : \A g \in 1 .. NumGroups :
                     /\ precMap'[l][g] <= precMap[l][g]
                     /\ l \in sentLayers => precMap'[l][g] = precMap[l][g]
<1>1. \A p \in Precision : Lower(p) <= p
  BY DEF Precision, Lower
<1>2. TypeInv => \A l \in Layers : \A g \in 1 .. NumGroups :
                   precMap[l][g] \in Precision /\ precMap[l][g] \in Nat
  <2> SUFFICES ASSUME TypeInv, NEW l \in Layers, NEW g \in 1 .. NumGroups
               PROVE  precMap[l][g] \in Precision /\ precMap[l][g] \in Nat
    OBVIOUS
  <2>1. precMap[l] \in [1 .. NumGroups -> Precision]
    BY DEF TypeInv, TypeOK, Groups
  <2>2. precMap[l][g] \in Precision
    BY <2>1
  <2> QED
    BY <2>2 DEF Precision
<1>3. ASSUME TypeInv, UNCHANGED precMap PROVE Down
  <2>1. ASSUME NEW l \in Layers, NEW g \in 1 .. NumGroups
        PROVE  precMap'[l][g] = precMap[l][g] /\ precMap[l][g] <= precMap[l][g]
    BY <1>2, <1>3
  <2> QED
    BY <2>1
<1>4. ASSUME TypeInv, NEW slow \in BOOLEAN, CheckBandwidth(slow) PROVE Down
  <2>1. CASE slow
    <3>1. precMap' = DowngradeMap(precMap, Layers \ sentLayers)
      BY <1>4, <2>1 DEF CheckBandwidth
    <3>2. ASSUME NEW l \in Layers, NEW g \in 1 .. NumGroups
          PROVE  /\ precMap'[l][g] <= precMap[l][g]
                 /\ l \in sentLayers => precMap'[l][g] = precMap[l][g]
      <4>1. CASE l \in sentLayers
        <5>1. precMap'[l][g] = precMap[l][g] /\ precMap[l][g] \in Nat
          BY <1>2, <1>4, <3>1, <4>1 DEF DowngradeMap
        <5> QED
          BY <5>1
      <4>2. CASE l \notin sentLayers
        <5>1. precMap'[l][g] = Lower(precMap[l][g])
          BY <3>1, <4>2 DEF DowngradeMap
        <5> QED
          BY <1>1, <1>2, <1>4, <4>2, <5>1
      <4> QED
        BY <4>1, <4>2
    <3> QED
      BY <3>2
  <2>2. CASE ~slow
    BY <1>3, <1>4, <2>2 DEF CheckBandwidth
  <2> QED
    BY <2>1, <2>2
<1>5. TypeInv /\ [Next]_vars => [Down]_vars
  <2> SUFFICES ASSUME TypeInv, Next PROVE Down
    BY <1>3 DEF vars
  <2>1. CASE \E slow \in BOOLEAN : CheckBandwidth(slow)
    BY <1>4, <2>1
  <2>2. CASE ~ \E slow \in BOOLEAN : CheckBandwidth(slow)
    <3>1. UNCHANGED precMap
      BY <2>2 DEF Next, Sender, Receiver, SendChunk, SendDecodeStart, ReceiveReply,
         ConnectionFailure, ClientFailure, ConnectionReset, ReceiveChunk, ReceiveDecodeStart,
         ReceiveUnknown, DecodeDone, DecodeRaises, AssemblyTimeout, StreamLost, LeaveStream,
         Terminated, sendVars, vars
    <3> QED
      BY <1>3, <3>1
  <2> QED
    BY <2>1, <2>2
<1> HIDE DEF Down
<1>6. Init => TypeInv
  BY TypeInit
<1>7. TypeInv /\ [Next]_vars => TypeInv'
  BY TypeStep
<1>8. Spec => [][Down]_vars
  BY <1>5, <1>6, <1>7, PTL DEF Spec
<1> QED
  BY <1>8 DEF Down, DowngradeOnly
-----------------------------------------------------------------------------
(* Delivery. *)

Cursor == [i : 1 .. N + 1, p : 0 .. SeqLen - 1]

EndOf(p) == IF p + ChunkSize < SeqLen THEN p + ChunkSize ELSE SeqLen
After(c) == IF EndOf(c.p) < SeqLen THEN [i |-> c.i, p |-> EndOf(c.p)]
                                   ELSE [i |-> c.i + 1, p |-> 0]
Here == [i |-> li, p |-> pos]
SenderCursor == IF spc = "check" THEN After(Here) ELSE Here

ChunkAt(c) ==
  [op |-> "kv_chunk", layer |-> order[c.i], start |-> c.p, end |-> EndOf(c.p),
   total |-> SeqLen, prec |-> layerCache[order[c.i]],
   meta |-> IF c.p > 0 THEN NoMeta ELSE layerCache[order[c.i]],
   last |-> EndOf(c.p) >= SeqLen]

\* Message m leads from cursor c to cursor d.
Link(m, c, d) ==
  \/ c.i <= N /\ m = ChunkAt(c) /\ d = After(c)
  \/ m = [op |-> "decode_start"] /\ c.i = N + 1 /\ d = c
  \/ m = [op |-> "shutdown"] /\ d = c

Trail(t) ==
  /\ \A k \in 1 .. Len(wire) : Link(wire[k], t[k], t[k + 1])
  /\ connUp => t[Len(wire) + 1] = SenderCursor

\* The buffered pieces of a layer tile its first p tokens.
LayerPrefix(info, l, p) ==
  /\ info.total = SeqLen
  /\ info.meta = layerCache[l]
  /\ \A x \in DOMAIN info.chunks : /\ info.chunks[x].prec = layerCache[l]
                                   /\ info.chunks[x].end <= p
  /\ \A t \in 0 .. p - 1 : \E x \in DOMAIN info.chunks :
       info.chunks[x].start <= t /\ t < info.chunks[x].end
  /\ \A x, y \in DOMAIN info.chunks :
       x < y => info.chunks[x].end <= info.chunks[y].start

Received(c) ==
  IF c.i = N + 1 THEN buf = <<>> /\ (N > 0 => kv # NoKV \/ raised)
  ELSE /\ kv = NoKV
       /\ \A j \in 1 .. N :
            order[j] \in DOMAIN buf <=> j < c.i \/ (j = c.i /\ c.p > 0)
       /\ \A j \in 1 .. c.i - 1 : LayerPrefix(buf[order[j]], order[j], SeqLen)
       /\ c.p > 0 => LayerPrefix(buf[order[c.i]], order[c.i], c.p)

\* Metadata has gone out for the layers whose first chunk has.
MetaInv ==
  \A j \in 1 .. N :
    /\ spc = "chunk" => (order[j] \in metaSent <=> j < li \/ (j = li /\ pos > 0))
    /\ spc = "check" => (order[j] \in metaSent <=> j <= li)

StreamInv ==
  rpc = "stream" => \E t \in [1 .. Len(wire) + 1 -> Cursor] :
                      Trail(t) /\ Received(t[1])

DeliveryInv ==
  /\ TypeInv
  /\ MetaInv
  /\ StreamInv
  /\ NothingLeftBehind
  /\ N > 0 => NoAssemblyTimeout
  /\ DeliveredWhole
-----------------------------------------------------------------------------
(* Cursors. *)

\* The order is a permutation of the layers.
LEMMA OrderPerm ==
  ASSUME TypeInv
  PROVE  /\ order \in [1 .. N -> Layers]
         /\ \A i, j \in 1 .. N : order[i] = order[j] => i = j
         /\ \A l \in Layers : \E i \in 1 .. N : order[i] = l
BY DEF TypeInv, TypeOK, Orders, N

\* A chunk ends after its start and inside the cache.
LEMMA EndOfType ==
  ASSUME NEW p \in 0 .. SeqLen - 1
  PROVE  EndOf(p) \in 1 .. SeqLen /\ p < EndOf(p)
BY SizesAssumption DEF EndOf

\* Following a chunk of an existing layer leads to a cursor.
LEMMA AfterType ==
  ASSUME NEW c \in Cursor, c.i <= N
  PROVE  After(c) \in Cursor
BY NType, EndOfType, SizesAssumption DEF Cursor, After

\* The sender stands at a cursor.
LEMMA SenderCursorType ==
  ASSUME TypeInv
  PROVE  Here \in Cursor /\ SenderCursor \in Cursor
<1>1. Here \in Cursor
  BY NType DEF TypeInv, TypeOK, Here, Cursor, N
<1>2. spc = "check" => Here.i <= N
  BY DEF TypeInv, CursorOK, Here
<1>3. QED
  BY <1>1, <1>2, AfterType DEF SenderCursor

\* Advance moves the sender past the chunk at its cursor.
LEMMA AdvanceCursor ==
  ASSUME TypeInv, spc \in {"chunk", "check"}, Advance
  PROVE  SenderCursor' = After(Here)
<1>1. pos \in 0 .. SeqLen - 1 /\ li \in Nat /\ ChunkEnd = EndOf(pos)
  BY NType DEF TypeInv, TypeOK, ChunkEnd, EndOf, N
<1>2. spc' # "check"
  BY DEF Advance
<1>3. QED
  BY <1>1, <1>2 DEF Advance, SenderCursor, After, Here

\* The chunk the sender builds is the one at its cursor.
LEMMA NextChunkAt ==
  ASSUME TypeInv, MetaInv, spc = "chunk"
  PROVE  NextChunk = ChunkAt(Here) /\ Here.i <= N
<1>1. pos \in 0 .. SeqLen - 1 /\ li \in 1 .. N
  BY NType DEF TypeInv, TypeOK, CursorOK, N
<1>2. order[li] \in metaSent <=> pos > 0
  BY <1>1, NType DEF MetaInv
<1>3. QED
  BY <1>1, <1>2 DEF NextChunk, ChunkAt, Here, ChunkEnd, EndOf
-----------------------------------------------------------------------------
(* The assembler. *)

\* Storing the chunk at the receiver's cursor extends the prefix of its layer.
LEMMA StoredPrefix ==
  ASSUME TypeInv, NEW c \in Cursor, c.i <= N, Received(c)
  PROVE  /\ \A j \in 1 .. N : order[j] \in DOMAIN Stored(ChunkAt(c)) <=> j <= c.i
         /\ \A j \in 1 .. c.i - 1 :
              LayerPrefix(Stored(ChunkAt(c))[order[j]], order[j], SeqLen)
         /\ LayerPrefix(Stored(ChunkAt(c))[order[c.i]], order[c.i], EndOf(c.p))
<1> DEFINE m == ChunkAt(c)
           l == order[c.i]
           piece == [start |-> c.p, end |-> EndOf(c.p), prec |-> layerCache[l]]
<1> USE NType
<1>1. /\ c.i \in 1 .. N /\ c.p \in 0 .. SeqLen - 1
      /\ EndOf(c.p) \in 1 .. SeqLen /\ c.p < EndOf(c.p)
  BY EndOfType DEF Cursor
<1>2. /\ order \in [1 .. N -> Layers]
      /\ \A i, j \in 1 .. N : order[i] = order[j] => i = j
  BY OrderPerm
<1>3. /\ \A j \in 1 .. N : order[j] \in DOMAIN buf <=> j < c.i \/ (j = c.i /\ c.p > 0)
      /\ \A j \in 1 .. c.i - 1 : LayerPrefix(buf[order[j]], order[j], SeqLen)
      /\ c.p > 0 => LayerPrefix(buf[l], l, c.p)
  BY <1>1 DEF Received
<1>4. DOMAIN Stored(m) = DOMAIN buf \cup {l}
  BY DEF Stored, ChunkAt
<1>5. \A x \in DOMAIN buf : x # l => Stored(m)[x] = buf[x]
  BY DEF Stored, ChunkAt
<1>6. \A j \in 1 .. N : order[j] \in DOMAIN Stored(m) <=> j <= c.i
  BY <1>1, <1>2, <1>3, <1>4
<1>7. \A j \in 1 .. c.i - 1 : Stored(m)[order[j]] = buf[order[j]]
  BY <1>1, <1>2, <1>3, <1>5
<1>8. LayerPrefix(Stored(m)[l], l, EndOf(c.p))
  <2>1. CASE c.p = 0
    <3>1. l \notin DOMAIN buf
      BY <2>1, <1>1, <1>3
    <3>2. Stored(m)[l] = [chunks |-> <<piece>>, total |-> SeqLen,
                          meta |-> layerCache[l]]
      BY <2>1, <3>1 DEF Stored, ChunkAt
    <3>3. QED
      BY <2>1, <3>2, <1>1 DEF LayerPrefix
  <2>2. CASE c.p > 0
    <3>1. l \in DOMAIN buf
      BY <2>2, <1>1, <1>3
    <3>2. Stored(m)[l] = [buf[l] EXCEPT !.chunks = Append(buf[l].chunks, piece)]
      BY <3>1 DEF Stored, ChunkAt
    <3>3. buf[l] \in LayerInfo /\ LayerPrefix(buf[l], l, c.p)
      BY <2>2, <3>1, <1>3 DEF TypeInv, TypeOK
    <3> DEFINE old == buf[l].chunks
               new == Append(old, piece)
               n   == Len(old)
    <3>4. old \in Seq(Piece) /\ n \in Nat
      BY <3>3 DEF LayerInfo
    <3>5. /\ DOMAIN new = 1 .. n + 1 /\ DOMAIN old = 1 .. n
          /\ new[n + 1] = piece
          /\ \A x \in 1 .. n : new[x] = old[x]
      <4>1. DOMAIN new = 1 .. n + 1 /\ DOMAIN old = 1 .. n
        BY <3>4
      <4>2. new[n + 1] = piece
        BY <3>4
      <4>3. \A x \in 1 .. n : new[x] = old[x]
        BY <3>4
      <4> QED
        BY <4>1, <4>2, <4>3
    <3>6. /\ Stored(m)[l].chunks = new
          /\ Stored(m)[l].total = buf[l].total
          /\ Stored(m)[l].meta = buf[l].meta
      BY <3>2, <3>3 DEF LayerInfo
    <3>7. /\ \A x \in 1 .. n : old[x].prec = layerCache[l] /\ old[x].end <= c.p
          /\ \A t \in 0 .. c.p - 1 : \E x \in 1 .. n : old[x].start <= t /\ t < old[x].end
          /\ \A x, y \in 1 .. n : x < y => old[x].end <= old[y].start
          /\ \A x \in 1 .. n : old[x].end \in Int /\ old[x].start \in Int
          /\ buf[l].total = SeqLen /\ buf[l].meta = layerCache[l]
      <4>1. \A x \in 1 .. n : old[x] \in Piece
        BY <3>4
      <4>2. \A x \in 1 .. n : old[x].end \in Int /\ old[x].start \in Int
        BY <4>1, SizesAssumption DEF Piece
      <4>3. QED
        BY <3>3, <3>5, <4>2 DEF LayerPrefix
    <3> HIDE DEF new, old, n
    <3>8. \A x \in 1 .. n + 1 : new[x].prec = layerCache[l] /\ new[x].end <= EndOf(c.p)
      <4> SUFFICES ASSUME NEW x \in 1 .. n + 1
                   PROVE  new[x].prec = layerCache[l] /\ new[x].end <= EndOf(c.p)
        OBVIOUS
      <4>1. CASE x = n + 1
        BY <4>1, <3>5, <1>1
      <4>2. CASE x # n + 1
        <5>1. x \in 1 .. n /\ new[x] = old[x] /\ old[x].end \in Int
          BY <4>2, <3>4, <3>5, <3>7
        <5>2. QED
          BY <5>1, <3>7, <1>1
      <4>3. QED
        BY <4>1, <4>2
    <3>9. \A t \in 0 .. EndOf(c.p) - 1 : \E x \in 1 .. n + 1 :
            new[x].start <= t /\ t < new[x].end
      <4> SUFFICES ASSUME NEW t \in 0 .. EndOf(c.p) - 1
                   PROVE  \E x \in 1 .. n + 1 : new[x].start <= t /\ t < new[x].end
        OBVIOUS
      <4>1. CASE t < c.p
        <5>1. PICK x \in 1 .. n : old[x].start <= t /\ t < old[x].end
          BY <4>1, <3>7, <1>1
        <5>2. x \in 1 .. n + 1 /\ new[x] = old[x]
          BY <5>1, <3>4, <3>5
        <5>3. new[x].start <= t /\ t < new[x].end
          BY <5>1, <5>2
        <5> QED
          BY <5>2, <5>3
      <4>2. CASE t >= c.p
        BY <4>2, <3>4, <3>5, <1>1
      <4>3. QED
        BY <4>1, <4>2, <1>1
    <3>10. \A x, y \in 1 .. n + 1 : x < y => new[x].end <= new[y].start
      <4> SUFFICES ASSUME NEW x \in 1 .. n + 1, NEW y \in 1 .. n + 1, x < y
                   PROVE  new[x].end <= new[y].start
        OBVIOUS
      <4>1. x \in 1 .. n /\ new[x] = old[x]
        BY <3>4, <3>5
      <4>2. CASE y = n + 1
        BY <4>1, <4>2, <3>5, <3>7
      <4>3. CASE y # n + 1
        <5>1. y \in 1 .. n /\ new[y] = old[y]
          BY <4>3, <3>4, <3>5
        <5>2. QED
          BY <4>1, <5>1, <3>7
      <4>4. QED
        BY <4>2, <4>3
    <3>11. QED
      BY <3>5, <3>6, <3>7, <3>8, <3>9, <3>10 DEF LayerPrefix
  <2>3. QED
    BY <2>1, <2>2, <1>1
<1>9. QED
  BY <1>3, <1>6, <1>7, <1>8

\* A layer whose prefix is the whole sequence is whole.
LEMMA PrefixIsWhole ==
  ASSUME NEW l, layerCache[l] \in Precision, NEW info, LayerPrefix(info, l, SeqLen)
  PROVE  IsComplete(info) /\ Whole(info)
BY DEF LayerPrefix, IsComplete, Whole, ReadAs, NoMeta, Precision
-----------------------------------------------------------------------------
(* The steps. *)

\* Reading the chunk at the receiver's cursor moves the cursor past it, and
\* assembles the cache exactly when it was the last chunk of the last layer.
LEMMA ReceiveStep ==
  ASSUME DeliveryInv, NumLayers = N,
         NEW d \in DequantOutcomes, ReceiveChunk(d),
         NEW c \in Cursor, c.i <= N, Received(c), Head(wire) = ChunkAt(c)
  PROVE  Received(After(c))' /\ DeliveredWhole'
<1> DEFINE m == ChunkAt(c)
           b == Stored(m)
<1> USE NType
<1>1. /\ c.i \in 1 .. N /\ c.p \in 0 .. SeqLen - 1
      /\ EndOf(c.p) \in 1 .. SeqLen
  BY EndOfType DEF Cursor
<1>2. /\ order \in [1 .. N -> Layers]
      /\ \A i, j \in 1 .. N : order[i] = order[j] => i = j
      /\ \A x \in Layers : \E i \in 1 .. N : order[i] = x
  BY OrderPerm DEF DeliveryInv
<1>3. layerCache \in [Layers -> Precision]
  BY DEF DeliveryInv, TypeInv, TypeOK
<1>4. UNCHANGED <<order, layerCache>>
  BY DEF ReceiveChunk, sendVars
<1>5. /\ AllReceived(m, b) => buf' = <<>> /\ (kv' = b \/ (kv' = kv /\ raised'))
      /\ ~AllReceived(m, b) => buf' = b /\ kv' = kv
  BY DEF ReceiveChunk
<1>6. /\ DOMAIN b \subseteq Layers
      /\ \A j \in 1 .. N : order[j] \in DOMAIN b <=> j <= c.i
      /\ \A j \in 1 .. c.i - 1 : LayerPrefix(b[order[j]], order[j], SeqLen)
      /\ LayerPrefix(b[order[c.i]], order[c.i], EndOf(c.p))
  <2>1. m \in Chunk
    BY <1>1, <1>2, <1>3 DEF ChunkAt, Chunk
  <2>2. QED
    BY <2>1, StoredPrefix, StoredType DEF DeliveryInv
<1>7. kv = NoKV
  BY <1>1 DEF Received
<1>8. m.last <=> EndOf(c.p) >= SeqLen
  BY DEF ChunkAt
<1> HIDE DEF m, b
<1>9. CASE EndOf(c.p) < SeqLen
  <2>1. After(c) = [i |-> c.i, p |-> EndOf(c.p)]
    BY <1>9 DEF After
  <2>2. buf' = b /\ kv' = NoKV
    BY <1>9, <1>1, <1>5, <1>7, <1>8, SizesAssumption DEF AllReceived
  <2>3. \A j \in 1 .. N : order[j] \in DOMAIN b <=> j < c.i \/ j = c.i
    BY <1>1, <1>6
  <2>4. c.i # N + 1 /\ EndOf(c.p) > 0
    BY <1>1
  <2>5. \A j \in 1 .. c.i - 1 : LayerPrefix(buf[order[j]], order[j], SeqLen)'
    BY <2>2, <1>4, <1>6 DEF LayerPrefix
  <2>6. LayerPrefix(buf[order[c.i]], order[c.i], EndOf(c.p))'
    BY <2>2, <1>4, <1>6 DEF LayerPrefix
  <2>7. \A j \in 1 .. N : order'[j] \in DOMAIN buf' <=> j < c.i \/ (j = c.i /\ EndOf(c.p) > 0)
    BY <2>2, <2>3, <2>4, <1>4
  <2>8. Received(After(c))'
    BY <2>1, <2>2, <2>4, <2>5, <2>6, <2>7 DEF Received, EndOf
  <2>9. DeliveredWhole'
    BY <2>2 DEF DeliveredWhole
  <2>10. QED
    BY <2>8, <2>9
<1>10. CASE EndOf(c.p) = SeqLen /\ c.i < N
  <2>1. After(c) = [i |-> c.i + 1, p |-> 0]
    BY <1>10, <1>1 DEF After
  <2>2. Cardinality(DOMAIN b) < N
    <3>1. order[N] \in Layers /\ order[N] \notin DOMAIN b
      BY <1>10, <1>1, <1>2, <1>6
    <3>2. IsFiniteSet(Layers) /\ DOMAIN b \in SUBSET Layers /\ DOMAIN b # Layers
      BY <3>1, <1>6, LayersAssumption
    <3>3. Cardinality(DOMAIN b) <= N /\ Cardinality(DOMAIN b) # N
      BY <3>2, FS_Subset DEF N
    <3>4. Cardinality(DOMAIN b) \in Nat
      BY <3>2, FS_Subset, FS_CardinalityType
    <3>5. QED
      BY <3>3, <3>4
  <2>3. Cardinality(DOMAIN b) \in Int
    BY <1>6, LayersAssumption, FS_Subset, FS_CardinalityType
  <2>4. ~AllReceived(m, b)
    BY <2>2, <2>3, <1>1, <1>10 DEF AllReceived
  <2>5. buf' = b /\ kv' = NoKV
    BY <2>4, <1>5, <1>7
  <2>6. \A j \in 1 .. c.i : LayerPrefix(b[order[j]], order[j], SeqLen)
    BY <1>1, <1>6, <1>10
  <2>7. \A j \in 1 .. N : order[j] \in DOMAIN b <=> j < c.i + 1
    BY <1>1, <1>6
  <2>8. c.i + 1 # N + 1 /\ (c.i + 1) - 1 = c.i
    BY <1>1, <1>10
  <2>9. \A j \in 1 .. c.i : LayerPrefix(buf[order[j]], order[j], SeqLen)'
    BY <2>5, <2>6, <1>4 DEF LayerPrefix
  <2>10. Received(After(c))'
    BY <2>1, <2>5, <2>7, <2>8, <2>9, <1>4 DEF Received
  <2>11. QED
    BY <2>5, <2>10 DEF DeliveredWhole
<1>11. CASE EndOf(c.p) = SeqLen /\ c.i = N
  <2>1. After(c) = [i |-> N + 1, p |-> 0]
    BY <1>11, <1>1 DEF After
  <2>2. DOMAIN b = Layers
    <3>1. ASSUME NEW x \in Layers PROVE x \in DOMAIN b
      <4>1. PICK j \in 1 .. N : order[j] = x
        BY <1>2
      <4>2. QED
        BY <4>1, <1>6, <1>11
    <3>2. QED
      BY <3>1, <1>6
  <2>3. \A x \in Layers : LayerPrefix(b[x], x, SeqLen)
    <3> SUFFICES ASSUME NEW x \in Layers PROVE LayerPrefix(b[x], x, SeqLen)
      OBVIOUS
    <3>1. PICK j \in 1 .. N : order[j] = x
      BY <1>2
    <3>2. QED
      BY <3>1, <1>1, <1>6, <1>11
  <2>4. \A x \in Layers : IsComplete(b[x]) /\ Whole(b[x])
    BY <2>3, <1>3, PrefixIsWhole
  <2>5. AllReceived(m, b)
    BY <2>2, <2>4, <1>8, <1>11, SizesAssumption DEF AllReceived, N
  <2>6. buf' = <<>> /\ (kv' = b \/ (kv' = NoKV /\ raised'))
    BY <2>5, <1>5, <1>7
  <2>7. b # NoKV
    BY <2>2, <1>2, <1>11, <1>1 DEF NoKV
  <2>10. Received(After(c))'
    BY <2>1, <2>6, <2>7 DEF Received, NoKV
  <2>8. DeliveredWhole'
    BY <2>2, <2>4, <2>6 DEF DeliveredWhole, Whole, IsComplete
  <2>9. QED
    BY <2>10, <2>8
<1>12. QED
  BY <1>1, <1>9, <1>10, <1>11, SizesAssumption

\* The initial state satisfies the invariant: both cursors are at the start.
LEMMA DeliveryInit == Init => DeliveryInv
<1> SUFFICES ASSUME Init PROVE DeliveryInv
  OBVIOUS
<1> USE NType
<1>1. TypeInv
  BY TypeInit
<1>2. MetaInv
  BY DEF Init, MetaInv
<1> DEFINE t == [k \in 1 .. 1 |-> Here]
<1>3. Len(wire) = 0 /\ li = 1 /\ pos = 0 /\ buf = <<>> /\ kv = NoKV /\ spc # "check"
  BY DEF Init
<1>4. t \in [1 .. Len(wire) + 1 -> Cursor] /\ Trail(t)
  BY <1>1, <1>3, SenderCursorType DEF Trail, SenderCursor
<1>5. Received(t[1])
  BY <1>3 DEF Received, Here
<1>6. StreamInv
  BY <1>4, <1>5 DEF StreamInv
<1>7. QED
  BY <1>1, <1>2, <1>6 DEF DeliveryInv, Init, DeliveredWhole, NothingLeftBehind, NoAssemblyTimeout

\* The metadata bookkeeping is kept by every step.
LEMMA MetaStep == TypeInv /\ MetaInv /\ [Next]_vars => MetaInv'
<1> SUFFICES ASSUME TypeInv, MetaInv, [Next]_vars PROVE MetaInv'
  OBVIOUS
<1> USE NType
<1>1. /\ li \in 1 .. N + 1 /\ pos \in 0 .. SeqLen - 1
      /\ \A i, j \in 1 .. N : order[i] = order[j] => i = j
      /\ spc \in {"chunk", "check"} => li <= N
      /\ ChunkEnd \in 1 .. SeqLen
  BY OrderPerm, EndType DEF TypeInv, TypeOK, CursorOK, N
<1>2. ASSUME spc \in {"chunk", "check"}, Advance, UNCHANGED order,
             \A j \in 1 .. N : order[j] \in metaSent' <=> j <= li
      PROVE  MetaInv'
  BY <1>1, <1>2, SizesAssumption DEF Advance, MetaInv
<1>3. CASE SendChunk
  <2>1. \A j \in 1 .. N : order[j] \in metaSent' <=> j <= li
    BY <1>1, <1>3 DEF SendChunk, MetaInv
  <2>2. UNCHANGED order
    BY <1>3 DEF SendChunk
  <2>3. CASE Advance
    BY <2>1, <2>2, <2>3, <1>2, <1>3 DEF SendChunk
  <2>4. CASE spc' = "check" /\ UNCHANGED <<li, pos, sentLayers>>
    BY <2>1, <2>2, <2>4 DEF MetaInv
  <2>5. QED
    BY <2>3, <2>4, <1>3 DEF SendChunk
<1>4. ASSUME NEW slow \in BOOLEAN, CheckBandwidth(slow)
      PROVE  MetaInv'
  <2>1. \A j \in 1 .. N : order[j] \in metaSent' <=> j <= li
    BY <1>4 DEF CheckBandwidth, MetaInv
  <2>2. QED
    BY <2>1, <1>2, <1>4 DEF CheckBandwidth
<1>5. CASE /\ spc' \notin {"chunk", "check"} \/ spc' = spc
           /\ UNCHANGED <<order, li, pos, metaSent>>
  BY <1>5 DEF MetaInv
<1>6. QED
  BY <1>3, <1>4, <1>5
     DEF Next, Sender, Receiver, SendDecodeStart, ReceiveReply,
         ConnectionFailure, ClientFailure, ConnectionReset, ReceiveChunk,
         ReceiveDecodeStart, ReceiveUnknown, DecodeDone, DecodeRaises,
         AssemblyTimeout, StreamLost, LeaveStream, Terminated, vars, sendVars

\* The sender's cursor stays put in every step that sends no chunk, as long as
\* the connection lasts.
LEMMA SenderCursorStays ==
  ASSUME TypeInv, [Next]_vars, ~SendChunk, connUp'
  PROVE  connUp /\ SenderCursor' = SenderCursor
<1>1. ASSUME NEW slow \in BOOLEAN, CheckBandwidth(slow)
      PROVE  connUp /\ SenderCursor' = SenderCursor
  <2>1. SenderCursor' = After(Here)
    BY <1>1, AdvanceCursor DEF CheckBandwidth
  <2>2. QED
    BY <1>1, <2>1 DEF CheckBandwidth, SenderCursor
<1>2. CASE spc' # "check" /\ spc # "check" /\ UNCHANGED <<li, pos, connUp>>
  BY <1>2 DEF SenderCursor, Here
<1>3. CASE UNCHANGED <<spc, li, pos, connUp>>
  BY <1>3 DEF SenderCursor, Here, After
<1>4. QED
  BY <1>1, <1>2, <1>3
     DEF Next, Sender, Receiver, SendDecodeStart, ReceiveReply,
         ConnectionFailure, ClientFailure, ConnectionReset, ReceiveChunk,
         ReceiveDecodeStart, ReceiveUnknown, DecodeDone, DecodeRaises,
         AssemblyTimeout, StreamLost, LeaveStream, Terminated, vars, sendVars

\* Messages keep leading to the same cursors while order and layerCache stay.
LEMMA TrailIntro ==
  ASSUME UNCHANGED <<order, layerCache>>, NEW u,
         \A k \in 1 .. Len(wire') : Link(wire'[k], u[k], u[k + 1]),
         connUp' => u[Len(wire') + 1] = SenderCursor'
  PROVE  Trail(u)'
BY DEF Trail, Link, ChunkAt

\* A step that appends a message leading to the sender's new cursor extends
\* the trail.
LEMMA TrailAppend ==
  ASSUME TypeInv, NEW m, wire' = Append(wire, m), UNCHANGED <<order, layerCache>>,
         NEW t \in [1 .. Len(wire) + 1 -> Cursor], Trail(t),
         NEW c \in Cursor, Link(m, t[Len(wire) + 1], c),
         connUp' => c = SenderCursor'
  PROVE  \E u \in [1 .. Len(wire') + 1 -> Cursor] : Trail(u)' /\ u[1] = t[1]
<1> PICK n : n = Len(wire)
  OBVIOUS
<1> PICK u : u = [k \in 1 .. n + 2 |-> IF k = n + 2 THEN c ELSE t[k]]
  OBVIOUS
<1>1. n \in Nat /\ Len(wire') = n + 1
  BY DEF TypeInv, TypeOK
<1>2. \A k \in 1 .. n : wire'[k] = wire[k]
  BY DEF TypeInv, TypeOK
<1>3. wire'[n + 1] = m
  BY DEF TypeInv, TypeOK
<1>4. u \in [1 .. Len(wire') + 1 -> Cursor] /\ u[1] = t[1]
  BY <1>1
<1>5. ASSUME NEW k \in 1 .. Len(wire') PROVE Link(wire'[k], u[k], u[k + 1])
  <2>1. CASE k = n + 1
    BY <2>1, <1>1, <1>3
  <2>2. CASE k # n + 1
    <3>1. k \in 1 .. n /\ u[k] = t[k] /\ u[k + 1] = t[k + 1]
      BY <2>2, <1>1
    <3>2. QED
      BY <3>1, <1>2 DEF Trail
  <2>3. QED
    BY <2>1, <2>2
<1>6. u[Len(wire') + 1] = c
  BY <1>1
<1>7. Trail(u)'
  BY <1>5, <1>6, TrailIntro
<1>8. QED
  BY <1>4, <1>7

\* Reading a message shortens the trail.
LEMMA TrailTail ==
  ASSUME TypeInv, wire # <<>>, wire' = Tail(wire), UNCHANGED <<order, layerCache>>,
         NEW t \in [1 .. Len(wire) + 1 -> Cursor], Trail(t),
         connUp' => connUp /\ SenderCursor' = SenderCursor
  PROVE  /\ \E u \in [1 .. Len(wire') + 1 -> Cursor] : Trail(u)' /\ u[1] = t[2]
         /\ Link(Head(wire), t[1], t[2])
         /\ t[1] \in Cursor /\ t[2] \in Cursor
<1> PICK n : n = Len(wire)
  OBVIOUS
<1> PICK u : u = [k \in 1 .. n |-> t[k + 1]]
  OBVIOUS
<1>1. n \in Nat /\ n # 0 /\ Len(wire') = n - 1
  BY DEF TypeInv, TypeOK
<1>2. /\ \A k \in 1 .. n - 1 : wire'[k] = wire[k + 1]
      /\ Head(wire) = wire[1]
  BY DEF TypeInv, TypeOK
<1>3. u \in [1 .. Len(wire') + 1 -> Cursor] /\ u[1] = t[2]
  BY <1>1
<1>4. ASSUME NEW k \in 1 .. Len(wire') PROVE Link(wire'[k], u[k], u[k + 1])
  BY <1>1, <1>2 DEF Trail
<1>5. connUp' => u[Len(wire') + 1] = SenderCursor'
  BY <1>1 DEF Trail
<1>6. Trail(u)'
  BY <1>4, <1>5, TrailIntro
<1>7. Link(Head(wire), t[1], t[2])
  <2>1. Link(wire[1], t[1], t[1 + 1])
    BY <1>1 DEF Trail
  <2>2. QED
    BY <2>1, <1>2
<1>8. QED
  BY <1>1, <1>3, <1>6, <1>7

\* What the receiver holds says nothing new while neither it nor what was to be
\* sent changes.
LEMMA ReceivedKept ==
  ASSUME UNCHANGED <<order, layerCache, buf, kv, raised>>, NEW c, Received(c)
  PROVE  Received(c)'
<1>1. order' = order /\ layerCache' = layerCache /\ buf' = buf /\ kv' = kv /\ raised' = raised
  OBVIOUS
<1>2. \A info, l, p : LayerPrefix(info, l, p) => LayerPrefix(info, l, p)'
  BY <1>1 DEF LayerPrefix
<1>3. CASE c.i = N + 1
  BY <1>1, <1>3 DEF Received
<1>4. CASE c.i # N + 1
  <2>1. /\ \A j \in 1 .. c.i - 1 : LayerPrefix(buf[order[j]], order[j], SeqLen)'
        /\ c.p > 0 => LayerPrefix(buf[order[c.i]], order[c.i], c.p)'
    BY <1>2, <1>4 DEF Received
  <2> QED
    BY <1>1, <1>4, <2>1 DEF Received
<1> QED
  BY <1>3, <1>4

\* Every step that the receiver takes keeps the invariant.
LEMMA ReceiverStep ==
  ASSUME DeliveryInv, NumLayers = N, Receiver, TypeInv', MetaInv'
  PROVE  DeliveryInv'
<1> USE NType
<1>1. connUp' => connUp /\ SenderCursor' = SenderCursor
  BY SenderCursorStays
     DEF DeliveryInv, Next, Receiver, SendChunk, ReceiveChunk, ReceiveDecodeStart,
         ReceiveUnknown, DecodeDone, DecodeRaises, AssemblyTimeout, StreamLost,
         LeaveStream, sendVars, SenderCursor, Here, After
<1>2. ASSUME NEW d \in DequantOutcomes, ReceiveChunk(d)
      PROVE  DeliveryInv'
  <2>1. PICK t \in [1 .. Len(wire) + 1 -> Cursor] : Trail(t) /\ Received(t[1])
    BY <1>2 DEF DeliveryInv, StreamInv, ReceiveChunk
  <2>2. UNCHANGED <<order, layerCache, rpc>> /\ rpc = "stream"
    BY <1>2 DEF ReceiveChunk, sendVars
  <2>3. /\ \E u \in [1 .. Len(wire') + 1 -> Cursor] : Trail(u)' /\ u[1] = t[2]
        /\ Link(Head(wire), t[1], t[2]) /\ t[1] \in Cursor /\ t[2] \in Cursor
    BY <1>1, <1>2, <2>1, <2>2, TrailTail DEF DeliveryInv, ReceiveChunk
  <2>4. t[1].i <= N /\ Head(wire) = ChunkAt(t[1]) /\ t[2] = After(t[1])
    BY <1>2, <2>3 DEF Link, ReceiveChunk
  <2>5. Received(t[2])' /\ DeliveredWhole'
    BY <1>2, <2>1, <2>3, <2>4, ReceiveStep
  <2>6. StreamInv'
    BY <2>3, <2>5 DEF StreamInv
  <2>7. QED
    BY <2>2, <2>5, <2>6 DEF DeliveryInv, NothingLeftBehind, NoAssemblyTimeout
<1>3. CASE ReceiveDecodeStart
  <2>1. PICK t \in [1 .. Len(wire) + 1 -> Cursor] : Trail(t) /\ Received(t[1])
    BY <1>3 DEF DeliveryInv, StreamInv, ReceiveDecodeStart
  <2>2. UNCHANGED <<order, layerCache, buf, kv, raised>> /\ rpc' = "waiting"
    BY <1>3 DEF ReceiveDecodeStart, sendVars
  <2>3. Link(Head(wire), t[1], t[2])
    BY <1>1, <1>3, <2>1, <2>2, TrailTail DEF DeliveryInv, ReceiveDecodeStart
  <2>4. t[1].i = N + 1
    BY <1>3, <2>3 DEF Link, ReceiveDecodeStart, ChunkAt
  <2>5. NothingLeftBehind' /\ (N > 0 => NoAssemblyTimeout')
    BY <2>1, <2>2, <2>4 DEF Received, NothingLeftBehind, NoAssemblyTimeout, NoKV
  <2>6. QED
    BY <2>2, <2>5 DEF DeliveryInv, StreamInv, DeliveredWhole, N
<1>4. CASE ReceiveUnknown
  <2>1. PICK t \in [1 .. Len(wire) + 1 -> Cursor] : Trail(t) /\ Received(t[1])
    BY <1>4 DEF DeliveryInv, StreamInv, ReceiveUnknown
  <2>2. UNCHANGED <<order, layerCache, buf, kv, raised, rpc>> /\ rpc = "stream"
    BY <1>4 DEF ReceiveUnknown, sendVars, recvVars
  <2>3. /\ \E u \in [1 .. Len(wire') + 1 -> Cursor] : Trail(u)' /\ u[1] = t[2]
        /\ Link(Head(wire), t[1], t[2])
    BY <1>1, <1>4, <2>1, <2>2, TrailTail DEF DeliveryInv, ReceiveUnknown
  <2>4. t[2] = t[1]
    BY <1>4, <2>3 DEF Link, ReceiveUnknown, ChunkAt
  <2>5. Received(t[2])'
    BY <2>1, <2>2, <2>4, ReceivedKept
  <2>6. QED
    BY <2>2, <2>3, <2>5 DEF DeliveryInv, StreamInv, DeliveredWhole, NothingLeftBehind, NoAssemblyTimeout
<1>5. ASSUME NEW a \in {"ok", "error", "none"}, LeaveStream(a)
      PROVE  DeliveryInv'
  BY <1>5 DEF LeaveStream, DeliveryInv, StreamInv, DeliveredWhole, NothingLeftBehind, NoAssemblyTimeout
<1>6. QED
  BY <1>2, <1>3, <1>4, <1>5
     DEF Receiver, DecodeDone, DecodeRaises, AssemblyTimeout, StreamLost

\* So does every other step.
LEMMA OtherStep ==
  ASSUME DeliveryInv, [Next]_vars, ~Receiver, TypeInv', MetaInv'
  PROVE  DeliveryInv'
<1> USE NType
<1>1. UNCHANGED <<order, layerCache, recvVars>>
  BY DEF Next, Sender, Receiver, SendChunk, CheckBandwidth, SendDecodeStart,
         ReceiveReply, ConnectionFailure, ClientFailure, ConnectionReset,
         Terminated, vars, sendVars
<1>2. ASSUME NEW c, Received(c) PROVE Received(c)'
  BY <1>1, <1>2, ReceivedKept DEF recvVars
<1>3. NothingLeftBehind' /\ (N > 0 => NoAssemblyTimeout)' /\ DeliveredWhole'
  BY <1>1 DEF DeliveryInv, DeliveredWhole, NothingLeftBehind, NoAssemblyTimeout, recvVars, N
<1>4. CASE rpc # "stream"
  BY <1>1, <1>3, <1>4 DEF DeliveryInv, StreamInv, recvVars
<1>5. CASE rpc = "stream"
  <2>1. PICK t \in [1 .. Len(wire) + 1 -> Cursor] : Trail(t) /\ Received(t[1])
    BY <1>5 DEF DeliveryInv, StreamInv
  <2> SUFFICES \E u \in [1 .. Len(wire') + 1 -> Cursor] : Trail(u)' /\ u[1] = t[1]
    BY <1>2, <1>3, <2>1 DEF DeliveryInv, StreamInv
  <2>9. wire \in Seq(Chunk \cup Control)
    BY DEF DeliveryInv, TypeInv, TypeOK
  <2>2. Len(wire) \in Nat /\ t[Len(wire) + 1] \in Cursor
    BY <2>9
  <2>3. CASE SendChunk
    <3>1. SenderCursor' = After(Here)
      <4>1. CASE Advance
        BY <4>1, <2>3, AdvanceCursor DEF DeliveryInv, SendChunk
      <4>2. CASE spc' = "check" /\ UNCHANGED <<li, pos>>
        BY <4>2 DEF SenderCursor, Here, After
      <4>3. QED
        BY <4>1, <4>2, <2>3 DEF SendChunk
    <3>2. NextChunk = ChunkAt(Here) /\ Here.i <= N
      BY <2>3, NextChunkAt DEF DeliveryInv, SendChunk
    <3>3. t[Len(wire) + 1] = Here /\ Here \in Cursor
      BY <2>1, <2>3, SenderCursorType DEF DeliveryInv, Trail, SendChunk, SenderCursor
    <3>4. Link(NextChunk, t[Len(wire) + 1], After(Here)) /\ After(Here) \in Cursor
      BY <3>2, <3>3, AfterType DEF Link
    <3>5. QED
      BY <2>1, <2>3, <3>1, <3>4, <1>1, TrailAppend DEF DeliveryInv, SendChunk
  <2>4. CASE SendDecodeStart
    <3>1. connUp' => SenderCursor' = t[Len(wire) + 1]
      BY <2>1, <2>4, SenderCursorStays
         DEF DeliveryInv, Trail, SendChunk, SendDecodeStart
    <3>2. t[Len(wire) + 1].i = N + 1
      BY <2>1, <2>4 DEF DeliveryInv, TypeInv, CursorOK, Trail, SendDecodeStart,
                        SenderCursor, Here
    <3>3. QED
      BY <2>1, <2>2, <2>4, <3>1, <3>2, <1>1, TrailAppend
         DEF DeliveryInv, SendDecodeStart, Link
  <2>5. CASE ClientFailure
    BY <2>1, <2>2, <2>5, <1>1, TrailAppend DEF DeliveryInv, ClientFailure, Link
  <2>6. CASE ConnectionReset
    <3>1. PICK n \in 0 .. Len(wire) : wire' = SubSeq(wire, 1, n)
      BY <2>6 DEF ConnectionReset
    <3>2. /\ Len(wire') = n
          /\ \A k \in 1 .. n : wire'[k] = wire[k]
      BY <2>2, <3>1 DEF DeliveryInv, TypeInv, TypeOK
    <3> DEFINE u == [k \in 1 .. n + 1 |-> t[k]]
    <3>3. u \in [1 .. Len(wire') + 1 -> Cursor] /\ u[1] = t[1]
      BY <2>2, <3>2
    <3>4. \A k \in 1 .. Len(wire') : Link(wire'[k], u[k], u[k + 1])
      BY <2>1, <2>2, <3>2 DEF Trail
    <3>5. ~connUp'
      BY <2>6 DEF ConnectionReset
    <3> HIDE DEF u
    <3>6. Trail(u)'
      BY <3>4, <3>5, <1>1 DEF Trail, Link, ChunkAt
    <3>7. QED
      BY <3>3, <3>6
  <2>7. CASE ~SendChunk /\ UNCHANGED wire
    <3>1. connUp' => connUp /\ SenderCursor' = SenderCursor
      BY <2>7, SenderCursorStays DEF DeliveryInv
    <3>2. Trail(t)'
      BY <2>1, <2>7, <3>1, <1>1 DEF Trail, Link, ChunkAt
    <3>3. QED
      BY <2>7, <3>2
  <2>8. QED
    BY <2>3, <2>4, <2>5, <2>6, <2>7
       DEF Next, Sender, CheckBandwidth, ReceiveReply, ConnectionFailure,
           Terminated, vars
<1>6. QED
  BY <1>4, <1>5

\* The invariant holds when the prefill node announces as many layers as it
\* sends.
LEMMA DeliveryAlways ==
  ASSUME NumLayers = Cardinality(Layers)
  PROVE  Spec => []DeliveryInv
<1>1. DeliveryInv /\ [Next]_vars => DeliveryInv'
  <2> SUFFICES ASSUME DeliveryInv, [Next]_vars PROVE DeliveryInv'
    OBVIOUS
  <2>1. TypeInv' /\ MetaInv'
    BY TypeStep, MetaStep DEF DeliveryInv
  <2>2. CASE Receiver
    BY <2>1, <2>2, ReceiverStep DEF N
  <2>3. CASE ~Receiver
    BY <2>1, <2>3, OtherStep
  <2>4. QED
    BY <2>2, <2>3
<1>2. QED
  BY DeliveryInit, <1>1, PTL DEF Spec

\* The decode loop never reads a partial cache, for every set of layers,
\* order, chunk size, precision map, downgrade and loss of the connection,
\* provided the prefill node announces as many layers as it sends.
THEOREM WholeDelivery ==
  ASSUME NumLayers = Cardinality(Layers)
  PROVE  Spec => []DeliveredWhole
<1>1. DeliveryInv => DeliveredWhole
  BY DEF DeliveryInv
<1>2. QED
  BY <1>1, DeliveryAlways, PTL

\* The buffers are empty as soon as the server has read decode_start, and
\* after every way out of the stream.
THEOREM NothingLeft ==
  ASSUME NumLayers = Cardinality(Layers)
  PROVE  Spec => []NothingLeftBehind
<1>1. DeliveryInv => NothingLeftBehind
  BY DEF DeliveryInv
<1>2. QED
  BY <1>1, DeliveryAlways, PTL

\* The server never waits in vain for a cache: when it has read decode_start
\* the cache was assembled or its dequantisation failed.
THEOREM NoTimeout ==
  ASSUME NumLayers = Cardinality(Layers), Layers # {}
  PROVE  Spec => []NoAssemblyTimeout
<1>1. N > 0
  BY LayersAssumption, FS_EmptySet, FS_CardinalityType DEF N
<1>2. DeliveryInv => NoAssemblyTimeout
  BY <1>1 DEF DeliveryInv
<1>3. QED
  BY <1>2, DeliveryAlways, PTL
-----------------------------------------------------------------------------
(* The stream implements KVDelivery, liveness aside. *)

\* The abstract state, as the refinement mapping of KVTransport has it.
DeliveredNow == {l \in DOMAIN kv : Whole(kv[l])}
AnswerNow == IF rpc # "closed" THEN "none" ELSE IF reply = "none" THEN "abandoned" ELSE reply

\* What is delivered is nothing or every layer.
AllOrNone == DeliveredNow = IF kv = NoKV THEN {} ELSE Layers

LEMMA AllOrNothing == DeliveryInv => AllOrNone
<1> SUFFICES ASSUME DeliveryInv PROVE AllOrNone
  OBVIOUS
<1>1. kv = NoKV => DOMAIN kv = {}
  BY DEF NoKV
<1>2. kv # NoKV => DOMAIN kv = Layers /\ \A l \in Layers : Whole(kv[l])
  BY DEF DeliveryInv, DeliveredWhole
<1>3. QED
  BY <1>1, <1>2 DEF DeliveredNow, AllOrNone

LEMMA AbstractInit == Init => DeliveredNow = {} /\ AnswerNow = "none"
BY DEF Init, DeliveredNow, AnswerNow, NoKV

\* Every step of the stream is a step of the promise, or invisible to it.
LEMMA AbstractStep ==
  ASSUME DeliveryInv, DeliveryInv', [Next]_vars
  PROVE  \/ UNCHANGED <<DeliveredNow, AnswerNow>>
         \/ /\ AnswerNow = "none" /\ DeliveredNow = {}
            /\ DeliveredNow' = Layers /\ AnswerNow' = AnswerNow
         \/ /\ AnswerNow = "none" /\ DeliveredNow = Layers
            /\ AnswerNow' = "ok" /\ DeliveredNow' = DeliveredNow
         \/ /\ AnswerNow = "none" /\ AnswerNow' \in {"error", "abandoned"}
            /\ DeliveredNow' = DeliveredNow
<1>1. /\ DeliveredNow = IF kv = NoKV THEN {} ELSE Layers
      /\ DeliveredNow' = IF kv' = NoKV THEN {} ELSE Layers
  <2>1. AllOrNone
    BY AllOrNothing
  <2>2. AllOrNone'
    BY AllOrNothing, PTL
  <2>3. QED
    BY <2>1, <2>2 DEF AllOrNone, NoKV
<1>2. CASE UNCHANGED <<kv, rpc, reply>>
  BY <1>1, <1>2 DEF AnswerNow
<1>3. ASSUME NEW d \in DequantOutcomes, ReceiveChunk(d), kv' # kv
      PROVE  /\ AnswerNow = "none" /\ AnswerNow' = AnswerNow
             /\ kv' # NoKV
  <2>1. rpc = "stream" /\ rpc' = rpc /\ kv' = Stored(Head(wire))
    BY <1>3 DEF ReceiveChunk
  <2>2. Head(wire).layer \in DOMAIN kv'
    BY <2>1 DEF Stored
  <2>3. DOMAIN NoKV = {}
    BY DEF NoKV
  <2>4. QED
    BY <2>1, <2>2, <2>3 DEF AnswerNow
<1>4. CASE \E d \in DequantOutcomes : ReceiveChunk(d)
  <2>1. PICK d \in DequantOutcomes : ReceiveChunk(d)
    BY <1>4
  <2>2. CASE kv' = kv
    BY <1>2, <2>1, <2>2 DEF ReceiveChunk
  <2>3. CASE kv' # kv
    BY <1>1, <1>3, <2>1, <2>3
  <2>4. QED
    BY <2>2, <2>3
<1>5. CASE DecodeDone
  BY <1>1, <1>5 DEF DecodeDone, LeaveStream, AnswerNow
<1>6. CASE DecodeRaises \/ AssemblyTimeout \/ StreamLost
  BY <1>1, <1>6 DEF DecodeRaises, AssemblyTimeout, StreamLost, LeaveStream, AnswerNow
<1>7. CASE ReceiveDecodeStart
  BY <1>1, <1>7 DEF ReceiveDecodeStart, AnswerNow
<1>8. CASE ~Receiver \/ ReceiveUnknown
  BY <1>2, <1>8
     DEF Next, Sender, SendChunk, CheckBandwidth, SendDecodeStart, ReceiveReply,
         ConnectionFailure, ClientFailure, ConnectionReset, Terminated, ReceiveUnknown,
         vars, recvVars
<1>9. QED
  BY <1>4, <1>5, <1>6, <1>7, <1>8 DEF Receiver

\* The stream implements all-or-nothing delivery: its initial states and its
\* steps are those of KVDelivery, or invisible to it.  (That a request ends
\* is for the model checker.)
THEOREM DeliverySimulation ==
  ASSUME NumLayers = Cardinality(Layers)
  PROVE  Spec => Delivery!Init /\ [][Delivery!Next]_Delivery!vars
<1>1. Init => Delivery!Init
  BY AbstractInit DEF Delivery!Init, DeliveredNow, AnswerNow
<1>2. DeliveryInv /\ DeliveryInv' /\ [Next]_vars => [Delivery!Next]_Delivery!vars
  BY AbstractStep DEF Delivery!Next, Delivery!Deliver, Delivery!AnswerOk, Delivery!GiveUp,
                      Delivery!vars, DeliveredNow, AnswerNow
<1>3. QED
  BY <1>1, <1>2, DeliveryAlways, PTL DEF Spec
=============================================================================
