-------------------------- MODULE PDSession_proof --------------------------
(***************************************************************************)
(* The two nodes never wait for each other, for any number of turns and    *)
(* chunks and whatever raises; and every step of a session is one PDTurns  *)
(* allows: a turn is only reported as generated when it was decoded.       *)
(*                                                                         *)
(* The inductive invariant follows the connection of the turn in progress: *)
(* for each state of run_prefill_turn it says what is in flight and where  *)
(* the server is with this connection.  While the client awaits a message, *)
(* there is one, or one of its own is still to be read that will be        *)
(* answered, or the server is decoding.  A second invariant, ReportInv, is *)
(* about which replies can be in flight: it makes the first message after  *)
(* the acknowledgement a result or an error, and the result a true one.    *)
(*                                                                         *)
(* CountInv bounds what is in flight on every connection, those left       *)
(* behind included, so that no server ever holds more chunks than a cache  *)
(* has.  CalmInv follows the one connection of a session in which nothing  *)
(* raises: in the backlog, served or left, with every chunk accounted for. *)
(***************************************************************************)
EXTENDS PDSession, TLAPS

ClientStates == {"idle", "connect_fp16", "connect_abkt", "send_kv", "await_ack",
                 "send_params", "await_result", "send_init", "pause",
                 "send_chunks", "resume", "send_start", "close"}
Streaming == ppc \in {"pause", "send_chunks", "resume", "send_start"}
Talking == ppc \notin {"idle", "connect_fp16", "connect_abkt", "close"}

Shape ==
  /\ env \in Environments
  /\ turn \in Nat \ {0} /\ (ppc # "idle" => turn \in Turns)
  /\ ppc \in ClientStates
  /\ c2s \in [Turns -> Seq(ClientMessages)] /\ s2c \in [Turns -> Seq(ServerMessages)]
  /\ cOpen \subseteq {turn} \cap Turns /\ sOpen \subseteq Turns
  /\ backlog \in Seq(Turns)
  /\ srv \in {"accept", "command", "params", "stream", "decode_fp16", "decode_abkt", "down"}
  /\ cur \in 0 .. MaxTurns /\ (cur = 0 <=> srv \in {"accept", "down"})

\* A connection is waiting or served at most once, and only after it was made.
Untouched(t) ==
  /\ c2s[t] = <<>> /\ s2c[t] = <<>>
  /\ cur # t /\ t \notin sOpen
  /\ \A k \in 1 .. Len(backlog) : backlog[k] # t

ConnInv ==
  /\ Talking => cOpen = {turn}
  /\ \A t \in Turns : t > turn \/ (t = turn /\ ~Talking /\ ppc # "close") => Untouched(t)
  /\ \A j, k \in 1 .. Len(backlog) : backlog[j] = backlog[k] => j = k
  /\ \A k \in 1 .. Len(backlog) : backlog[k] # cur

\* What is in flight from the client.
ChunksOnly(s) == \A k \in 1 .. Len(s) : s[k] = "chunk"
Opened(s) == s # <<>> /\ s[1] = "init" /\ \A k \in 2 .. Len(s) : s[k] = "chunk"
ChunksEnded(s) ==
  s # <<>> /\ s[Len(s)] = "decode_start" /\ \A k \in 1 .. Len(s) - 1 : s[k] = "chunk"
OpenedEnded(s) ==
  /\ s # <<>> /\ s[1] = "init" /\ s[Len(s)] = "decode_start"
  /\ \A k \in 2 .. Len(s) - 1 : s[k] = "chunk"

\* The server has read nothing of this turn.
Unread == s2c[turn] = <<>> /\ (cur = turn => srv = "command")
\* It is in the handler of run_decode, or back in its command loop.
Handling == cur = turn /\ srv \in {"params", "command"}

FirstSend == c2s[turn] = <<>> /\ Unread
AckInv == \/ c2s[turn] = <<"run_decode">> /\ Unread
          \/ c2s[turn] = <<>> /\ Len(s2c[turn]) = 1 /\ Handling
ParamsInv == c2s[turn] = <<>> /\ s2c[turn] = <<>> /\ Handling
ChunksInv == \/ Opened(c2s[turn]) /\ Unread
             \/ ChunksOnly(c2s[turn]) /\ s2c[turn] = <<>> /\ cur = turn /\ srv = "stream"
             \/ ChunksOnly(c2s[turn]) /\ s2c[turn] # <<>> /\ cur = turn /\ srv = "command"
ResultInv == \/ s2c[turn] # <<>>
             \/ c2s[turn] = <<"params">> /\ Handling
             \/ cur = turn /\ srv \in {"decode_fp16", "decode_abkt"}
             \/ OpenedEnded(c2s[turn]) /\ Unread
             \/ ChunksEnded(c2s[turn]) /\ cur = turn /\ srv = "stream"

TalkInv ==
  turn \in sOpen =>
    /\ ppc \in {"send_kv", "send_init"} => FirstSend
    /\ ppc = "await_ack" => AckInv
    /\ ppc = "send_params" => ParamsInv
    /\ Streaming => ChunksInv
    /\ ppc = "await_result" => ResultInv

Inv == Shape /\ ConnInv /\ TalkInv

LEMMA SessionInit == Init => Inv
<1> SUFFICES ASSUME Init PROVE Inv
  OBVIOUS
<1>1. Shape
  BY BoundsAssumption, EnvironmentsAssumption
     DEF Init, Shape, Turns, ClientStates, ClientMessages, ServerMessages
<1>2. ConnInv
  BY DEF Init, ConnInv, Untouched, Talking, Turns
<1>3. TalkInv
  BY DEF Init, TalkInv, Streaming
<1>4. QED
  BY <1>1, <1>2, <1>3 DEF Inv

\* The invariant implies what it is for.
LEMMA NoMutualWaitFollows == Inv => NoMutualWait
<1> SUFFICES ASSUME Inv, Awaiting, turn \in sOpen, s2c[turn] = <<>>, cur = turn,
                    srv \in {"command", "params", "stream"}, c2s[turn] = <<>>
             PROVE  FALSE
  BY DEF NoMutualWait
<1>1. <<"run_decode">> # <<>> /\ <<"params">> # <<>> /\ Len(s2c[turn]) = 0
  OBVIOUS
<1>2. CASE ppc = "await_ack"
  BY <1>1, <1>2 DEF Inv, TalkInv, AckInv
<1>3. CASE ppc = "await_result"
  BY <1>1, <1>3 DEF Inv, TalkInv, ResultInv, OpenedEnded, ChunksEnded
<1>4. QED
  BY <1>2, <1>3 DEF Awaiting
-----------------------------------------------------------------------------
(* The prefill node. *)

\* A send appends to what is in flight.
LEMMA SendFacts ==
  ASSUME Shape, ppc # "idle", NEW m \in ClientMessages, ClientSends(m)
  PROVE  /\ c2s' \in [Turns -> Seq(ClientMessages)]
         /\ \A t \in Turns : t # turn => c2s'[t] = c2s[t]
         /\ turn \in sOpen =>
              /\ c2s'[turn] = Append(c2s[turn], m)
              /\ c2s[turn] \in Seq(ClientMessages)
BY DEF Shape, ClientSends

\* Sending leaves the connections alone.
LEMMA SendConn ==
  ASSUME Inv, Talking, NEW m \in ClientMessages, ClientSends(m), Talking',
         UNCHANGED <<env, turn, s2c, cOpen, sOpen, backlog, srv, cur>>, ppc' \in ClientStates
  PROVE  Shape' /\ ConnInv'
<1>1. ppc # "idle"
  BY DEF Talking
<1>2. Shape'
  BY <1>1, SendFacts DEF Inv, Shape
<1>3. ConnInv'
  BY <1>1, SendFacts DEF Inv, Shape, ConnInv, Untouched, Turns
<1>4. QED
  BY <1>2, <1>3

LEMMA ClientSendStep ==
  ASSUME Inv, ClientSend
  PROVE  Inv'
<1>1. PICK s \in SendStates : ppc = s[1] /\ ClientSends(s[2]) /\ ppc' = s[3]
  BY DEF ClientSend
<1>2. UNCHANGED <<env, turn, s2c, cOpen, sOpen, backlog, srv, cur>>
  BY DEF ClientSend, server
<1>3. s[2] \in ClientMessages /\ Talking /\ Talking' /\ ppc' \in ClientStates /\ ppc # "idle"
  BY <1>1 DEF SendStates, ClientMessages, Talking, ClientStates
<1>4. Shape' /\ ConnInv'
  BY <1>1, <1>2, <1>3, SendConn
<1>5. TalkInv'
  <2> SUFFICES ASSUME turn \in sOpen PROVE TalkInv'
    BY <1>2 DEF TalkInv
  <2>1. c2s'[turn] = Append(c2s[turn], s[2]) /\ c2s[turn] \in Seq(ClientMessages)
    BY <1>1, <1>3, SendFacts DEF Inv
  <2>2. CASE s = <<"send_kv", "run_decode", "await_ack">>
    <3>1. c2s[turn] = <<>> /\ Unread
      BY <1>1, <2>2 DEF Inv, TalkInv, FirstSend
    <3>2. c2s'[turn] = <<"run_decode">> /\ Unread'
      BY <1>2, <2>1, <2>2, <3>1 DEF Unread
    <3>3. QED
      BY <1>1, <1>2, <2>2, <3>2 DEF TalkInv, AckInv, Streaming
  <2>3. CASE s = <<"send_params", "params", "await_result">>
    <3>1. c2s[turn] = <<>> /\ Handling
      BY <1>1, <2>3 DEF Inv, TalkInv, ParamsInv
    <3>2. c2s'[turn] = <<"params">> /\ Handling'
      BY <1>2, <2>1, <2>3, <3>1 DEF Handling
    <3>3. QED
      BY <1>1, <1>2, <2>3, <3>2 DEF TalkInv, ResultInv, Streaming
  <2>4. CASE s = <<"send_init", "init", "pause">>
    <3>1. c2s[turn] = <<>> /\ Unread
      BY <1>1, <2>4 DEF Inv, TalkInv, FirstSend
    <3>2. Opened(c2s'[turn]) /\ Unread'
      BY <1>2, <2>1, <2>4, <3>1 DEF Opened, Unread
    <3>3. QED
      BY <1>1, <1>2, <2>4, <3>2 DEF TalkInv, ChunksInv, Streaming
  <2>5. CASE s = <<"send_start", "decode_start", "await_result">>
    <3>1. ChunksInv
      BY <1>1, <2>5 DEF Inv, TalkInv, Streaming
    <3>2. CASE Opened(c2s[turn]) /\ Unread
      <4>1. OpenedEnded(c2s'[turn])
        BY <2>1, <2>5, <3>2 DEF Opened, OpenedEnded
      <4>2. QED
        BY <1>1, <1>2, <2>5, <3>2, <4>1 DEF TalkInv, ResultInv, Streaming, Unread
    <3>3. CASE ChunksOnly(c2s[turn]) /\ cur = turn /\ srv = "stream"
      <4>1. ChunksEnded(c2s'[turn])
        <5>1. /\ Len(c2s'[turn]) = Len(c2s[turn]) + 1 /\ Len(c2s[turn]) \in Nat
              /\ c2s'[turn][Len(c2s[turn]) + 1] = "decode_start"
              /\ \A k \in 1 .. Len(c2s[turn]) : c2s'[turn][k] = c2s[turn][k]
          BY <2>1, <2>5
        <5>2. c2s'[turn] # <<>>
          BY <5>1
        <5>3. QED
          BY <5>1, <5>2, <3>3 DEF ChunksOnly, ChunksEnded
      <4>2. QED
        BY <1>1, <1>2, <2>5, <3>3, <4>1 DEF TalkInv, ResultInv, Streaming
    <3>4. CASE s2c[turn] # <<>>
      BY <1>1, <1>2, <2>5, <3>4 DEF TalkInv, ResultInv, Streaming
    <3>5. QED
      BY <3>1, <3>2, <3>3, <3>4 DEF ChunksInv
  <2>6. QED
    BY <1>1, <2>2, <2>3, <2>4, <2>5 DEF SendStates
<1>6. QED
  BY <1>4, <1>5 DEF Inv

LEMMA SendChunkStep ==
  ASSUME Inv, SendChunk
  PROVE  Inv'
<1>1. /\ ppc = "send_chunks" /\ ppc' \in {"send_chunks", "resume"} /\ ClientSends("chunk")
      /\ UNCHANGED <<env, turn, s2c, cOpen, sOpen, backlog, srv, cur>>
  BY DEF SendChunk, server
<1>2. "chunk" \in ClientMessages /\ Talking /\ Talking' /\ ppc' \in ClientStates /\ ppc # "idle"
  BY <1>1 DEF ClientMessages, Talking, ClientStates
<1>3. Shape' /\ ConnInv'
  BY <1>1, <1>2, SendConn
<1>4. TalkInv'
  <2> SUFFICES ASSUME turn \in sOpen PROVE TalkInv'
    BY <1>1 DEF TalkInv
  <2>1. c2s'[turn] = Append(c2s[turn], "chunk") /\ c2s[turn] \in Seq(ClientMessages)
    BY <1>1, <1>2, SendFacts DEF Inv
  <2>2. ChunksInv
    BY <1>1 DEF Inv, TalkInv, Streaming
  <2>3. Opened(c2s[turn]) => Opened(c2s'[turn])
    BY <2>1 DEF Opened
  <2>4. ChunksOnly(c2s[turn]) => ChunksOnly(c2s'[turn])
    BY <2>1 DEF ChunksOnly
  <2>5. ChunksInv'
    BY <1>1, <2>2, <2>3, <2>4 DEF ChunksInv, Unread
  <2>6. QED
    BY <1>1, <2>5 DEF TalkInv, Streaming
<1>5. QED
  BY <1>3, <1>4 DEF Inv

LEMMA StartTurnStep ==
  ASSUME Inv, NEW path \in {"abkt", "fp16"}, StartTurn(path)
  PROVE  Inv'
<1>1. /\ ppc = "idle" /\ ppc' \in {"connect_fp16", "connect_abkt"} /\ turn <= env.turns
      /\ UNCHANGED <<env, turn, c2s, s2c, cOpen, sOpen, backlog, srv, cur>>
  BY DEF StartTurn, net, server
<1>2. turn \in Turns
  BY <1>1, BoundsAssumption, EnvironmentsAssumption DEF Inv, Shape, EnvironmentType, Turns
<1>3. Shape'
  BY <1>1, <1>2 DEF Inv, Shape, ClientStates
<1>4. ConnInv'
  BY <1>1 DEF Inv, ConnInv, Untouched, Talking
<1>5. TalkInv'
  BY <1>1 DEF TalkInv, Streaming
<1>6. QED
  BY <1>3, <1>4, <1>5 DEF Inv

LEMMA ConnectStep ==
  ASSUME Inv, Connect
  PROVE  Inv'
<1>1. /\ ppc \in {"connect_fp16", "connect_abkt"} /\ ppc' \in {"send_kv", "send_init"}
      /\ cOpen' = cOpen \cup {turn} /\ sOpen' = sOpen \cup {turn}
      /\ backlog' = Append(backlog, turn)
      /\ UNCHANGED <<env, turn, c2s, s2c, srv, cur>>
  BY DEF Connect, server
<1>2. turn \in Turns /\ Untouched(turn)
  BY <1>1 DEF Inv, Shape, ConnInv, Talking
<1>3. Shape'
  BY <1>1, <1>2 DEF Inv, Shape, ClientStates
<1>4. /\ Len(backlog') = Len(backlog) + 1 /\ Len(backlog) \in Nat
      /\ backlog'[Len(backlog) + 1] = turn
      /\ \A k \in 1 .. Len(backlog) : backlog'[k] = backlog[k]
  BY <1>1, <1>2 DEF Inv, Shape
<1>5. ConnInv'
  <2>1. cOpen' = {turn}
    BY <1>1 DEF Inv, Shape
  <2>2. \A t \in Turns : t > turn => Untouched(t)'
    BY <1>1, <1>2, <1>4 DEF Inv, Shape, ConnInv, Untouched, Turns
  <2>3. \A j, k \in 1 .. Len(backlog') : backlog'[j] = backlog'[k] => j = k
    BY <1>2, <1>4 DEF Inv, ConnInv, Untouched
  <2>4. \A k \in 1 .. Len(backlog') : backlog'[k] # cur'
    BY <1>1, <1>2, <1>4 DEF Inv, ConnInv, Untouched
  <2>5. Talking'
    BY <1>1 DEF Talking
  <2>6. QED
    BY <1>1, <2>1, <2>2, <2>3, <2>4, <2>5 DEF ConnInv
<1>6. TalkInv'
  BY <1>1, <1>2 DEF TalkInv, FirstSend, Unread, Untouched, Streaming
<1>7. QED
  BY <1>3, <1>5, <1>6 DEF Inv

\* Pausing and resuming stay within the streaming states.
LEMMA ProbesStep ==
  ASSUME Inv, PauseProbes \/ ResumeProbes
  PROVE  Inv'
<1>1. /\ ppc \in {"pause", "resume"} /\ ppc' \in {"send_chunks", "send_start"}
      /\ UNCHANGED <<env, turn, c2s, s2c, cOpen, sOpen, backlog, srv, cur>>
  BY DEF PauseProbes, ResumeProbes, net, server
<1>2. Shape'
  BY <1>1 DEF Inv, Shape, ClientStates
<1>3. ConnInv'
  BY <1>1 DEF Inv, ConnInv, Untouched, Talking
<1>4. TalkInv'
  BY <1>1 DEF Inv, TalkInv, Streaming, ChunksInv, Unread
<1>5. QED
  BY <1>2, <1>3, <1>4 DEF Inv

LEMMA ReceiveStep ==
  ASSUME Inv, Receive
  PROVE  Inv'
<1>1. /\ ppc \in {"await_ack", "await_result"} /\ s2c[turn] # <<>>
      /\ s2c' = [s2c EXCEPT ![turn] = Tail(@)]
      /\ ppc = "await_ack" => ppc' = "send_params"
      /\ ppc = "await_result" => ppc' = "close"
      /\ UNCHANGED <<env, turn, c2s, cOpen, sOpen, backlog, srv, cur>>
  BY DEF Receive, server
<1>2. turn \in Turns /\ s2c[turn] \in Seq(ServerMessages)
  BY <1>1 DEF Inv, Shape
<1>3. /\ s2c' \in [Turns -> Seq(ServerMessages)]
      /\ s2c'[turn] = Tail(s2c[turn]) /\ \A t \in Turns : t # turn => s2c'[t] = s2c[t]
  BY <1>1, <1>2 DEF Inv, Shape
<1>4. Shape'
  BY <1>1, <1>3 DEF Inv, Shape, ClientStates
<1>5. ConnInv'
  BY <1>1, <1>2, <1>3 DEF Inv, Shape, ConnInv, Untouched, Talking, Turns
<1>6. TalkInv'
  <2>1. CASE ppc = "await_ack" /\ turn \in sOpen
    <3>1. c2s[turn] = <<>> /\ Len(s2c[turn]) = 1 /\ Handling
      BY <1>1, <2>1 DEF Inv, TalkInv, AckInv, Unread
    <3>2. s2c'[turn] = <<>>
      BY <1>2, <1>3, <3>1
    <3>3. QED
      BY <1>1, <2>1, <3>1, <3>2 DEF TalkInv, ParamsInv, Handling, Streaming
  <2>2. CASE ppc = "await_result" \/ turn \notin sOpen
    BY <1>1, <2>2 DEF TalkInv, Streaming
  <2>3. QED
    BY <1>1, <2>1, <2>2
<1>7. QED
  BY <1>4, <1>5, <1>6 DEF Inv

LEMMA RaiseStep ==
  ASSUME Inv, Raise
  PROVE  Inv'
<1>1. /\ ppc # "idle" /\ ppc' = "close"
      /\ UNCHANGED <<env, turn, c2s, s2c, cOpen, sOpen, backlog, srv, cur>>
  BY DEF Raise, PeerGone, Connecting, Sending, Awaiting, SendStates, net, server
<1>2. Shape'
  BY <1>1 DEF Inv, Shape, ClientStates
<1>3. ConnInv' /\ TalkInv'
  BY <1>1 DEF Inv, ConnInv, Untouched, Talking, TalkInv, Streaming
<1>4. QED
  BY <1>2, <1>3 DEF Inv

LEMMA CloseTurnStep ==
  ASSUME Inv, CloseTurn
  PROVE  Inv'
<1>1. /\ ppc = "close" /\ ppc' = "idle" /\ turn' = turn + 1 /\ cOpen' = cOpen \ {turn}
      /\ UNCHANGED <<env, s2c, sOpen, backlog, srv, cur>>
  BY DEF CloseTurn, server
<1>2. turn \in Turns
  BY <1>1 DEF Inv, Shape
<1>3. c2s' \in [Turns -> Seq(ClientMessages)] /\ \A t \in Turns : t # turn => c2s'[t] = c2s[t]
  <2>1. CASE UNCHANGED c2s
    BY <2>1 DEF Inv, Shape
  <2>2. ASSUME NEW all \in Seq(ClientMessages), NEW n \in 0 .. Len(all),
               c2s' = [c2s EXCEPT ![turn] = SubSeq(all, 1, n)]
        PROVE  c2s' \in [Turns -> Seq(ClientMessages)] /\ \A t \in Turns : t # turn => c2s'[t] = c2s[t]
    <3>1. SubSeq(all, 1, n) \in Seq(ClientMessages)
      OBVIOUS
    <3>2. QED
      BY <2>2, <3>1 DEF Inv, Shape
  <2>3. /\ c2s[turn] \in Seq(ClientMessages)
        /\ Append(c2s[turn], "shutdown") \in Seq(ClientMessages)
    BY <1>2 DEF Inv, Shape, ClientMessages
  <2>4. QED
    BY <2>1, <2>2, <2>3 DEF CloseTurn
<1>4. Shape'
  BY <1>1, <1>2, <1>3 DEF Inv, Shape, ClientStates
<1>5. ConnInv'
  BY <1>1, <1>2, <1>3 DEF Inv, Shape, ConnInv, Untouched, Talking, Turns
<1>6. TalkInv'
  BY <1>1 DEF TalkInv, Streaming
<1>7. QED
  BY <1>4, <1>5, <1>6 DEF Inv
-----------------------------------------------------------------------------
(* The decode node. *)

\* A step of the server on its connection: what it keeps.
ServerFrame ==
  /\ UNCHANGED <<env, turn, ppc, cOpen>>
  /\ c2s' \in [Turns -> Seq(ClientMessages)] /\ s2c' \in [Turns -> Seq(ServerMessages)]
  /\ \A t \in Turns : t # cur => c2s'[t] = c2s[t] /\ s2c'[t] = s2c[t]
  /\ sOpen' \subseteq sOpen /\ backlog' \in {backlog, <<>>}
  /\ cur' \in {cur, 0} /\ (cur' = 0 <=> srv' \in {"accept", "down"})
  /\ srv' \in {"accept", "command", "params", "stream", "decode_fp16", "decode_abkt", "down"}

\* TalkInv is about the turn in progress: it needs a look only at steps on its
\* connection, and while that stays open.
LEMMA ServerStepInv ==
  ASSUME Inv, cur \in Turns, ServerFrame,
         cur = turn /\ Talking /\ cur \in cOpen /\ turn \in sOpen /\ turn \in sOpen' => TalkInv'
  PROVE  Inv'
<1>0. turn' = turn /\ ppc' = ppc /\ cOpen' = cOpen /\ env' = env
  BY DEF ServerFrame
<1>1. Shape'
  <2>1. Shape
    BY DEF Inv
  <2>2. backlog' \in Seq(Turns)
    <3>1. backlog \in Seq(Turns) /\ <<>> \in Seq(Turns) /\ backlog' \in {backlog, <<>>}
      BY <2>1 DEF Shape, ServerFrame
    <3>2. QED
      BY <3>1
  <2>3. cur' \in 0 .. MaxTurns /\ sOpen' \subseteq Turns
    <3>1. cur \in 0 .. MaxTurns /\ 0 \in 0 .. MaxTurns /\ cur' \in {cur, 0}
      BY <2>1, BoundsAssumption DEF Shape, ServerFrame
    <3>2. QED
      BY <2>1, <3>1 DEF Shape, ServerFrame
  <2>4. QED
    BY <1>0, <2>1, <2>2, <2>3 DEF Shape, ServerFrame
<1>2. ConnInv'
  <2>1. \A k \in 1 .. Len(backlog') : k \in 1 .. Len(backlog) /\ backlog'[k] = backlog[k]
    BY DEF ServerFrame
  <2>2. \A k \in 1 .. Len(backlog') : backlog'[k] # cur'
    <3>1. \A k \in 1 .. Len(backlog) : backlog[k] # cur /\ backlog[k] # 0
      <4>1. backlog \in Seq(Turns) /\ 0 \notin Turns
        BY DEF Inv, Shape, Turns
      <4>2. \A k \in 1 .. Len(backlog) : backlog[k] \in Turns
        BY <4>1
      <4>3. QED
        BY <4>1, <4>2 DEF Inv, ConnInv
    <3>2. QED
      BY <2>1, <3>1 DEF ServerFrame
  <2>3. ASSUME NEW t \in Turns, Untouched(t) PROVE Untouched(t)'
    BY <2>1, <2>3 DEF Untouched, ServerFrame, Turns
  <2>4. Talking' = Talking
    BY <1>0 DEF Talking
  <2>5. QED
    BY <1>0, <2>1, <2>2, <2>3, <2>4 DEF Inv, ConnInv
<1>3. ASSUME turn \notin sOpen' \/ ~Talking PROVE TalkInv'
  BY <1>0, <1>3 DEF TalkInv, Talking, Streaming
<1>4. ASSUME cur # turn /\ turn \in sOpen' PROVE TalkInv'
  <2>1. turn \in sOpen /\ turn \in Turns /\ cur' # turn
    BY <1>4 DEF Inv, Shape, ServerFrame, Turns
  <2>2. c2s'[turn] = c2s[turn] /\ s2c'[turn] = s2c[turn]
    BY <1>4, <2>1 DEF ServerFrame
  <2>3. Unread => Unread'
    BY <1>0, <2>1, <2>2 DEF Unread
  <2>4. TalkInv
    BY DEF Inv
  <2>5. ppc \in {"send_kv", "send_init"} => FirstSend'
    BY <1>0, <2>1, <2>2, <2>3, <2>4 DEF TalkInv, FirstSend
  <2>6. ppc = "await_ack" => AckInv'
    BY <1>0, <1>4, <2>1, <2>2, <2>3, <2>4 DEF TalkInv, AckInv, Handling
  <2>7. ppc # "send_params"
    BY <1>4, <2>1, <2>4 DEF TalkInv, ParamsInv, Handling
  <2>8. Streaming => ChunksInv'
    BY <1>0, <1>4, <2>1, <2>2, <2>3, <2>4 DEF TalkInv, ChunksInv
  <2>9. ppc = "await_result" => ResultInv'
    BY <1>0, <1>4, <2>1, <2>2, <2>3, <2>4 DEF TalkInv, ResultInv, Handling
  <2>10. QED
    BY <1>0, <2>5, <2>6, <2>7, <2>8, <2>9 DEF TalkInv, Streaming
<1>5. ASSUME cur = turn /\ Talking /\ turn \in sOpen' PROVE TalkInv'
  <2>1. cur \in cOpen /\ turn \in sOpen
    <3>1. cOpen = {turn}
      BY <1>5 DEF Inv, ConnInv
    <3>2. QED
      BY <1>5, <3>1 DEF ServerFrame
  <2>2. QED
    BY <1>5, <2>1
<1>6. QED
  BY <1>1, <1>2, <1>3, <1>4, <1>5 DEF Inv

\* Taking a message and replying, on the connection served.
LEMMA TakeFacts ==
  ASSUME Shape, Incoming, Take
  PROVE  /\ cur \in Turns /\ c2s' \in [Turns -> Seq(ClientMessages)]
         /\ \A t \in Turns : t # cur => c2s'[t] = c2s[t]
         /\ c2s[cur] \in Seq(ClientMessages) /\ c2s[cur] # <<>>
         /\ c2s'[cur] = Tail(c2s[cur])
BY DEF Shape, Incoming, Take

LEMMA ReplyFacts ==
  ASSUME Shape, cur \in Turns, NEW m \in ServerMessages,
         s2c' = (IF cur \in cOpen THEN [s2c EXCEPT ![cur] = Append(@, m)] ELSE s2c)
  PROVE  /\ s2c' \in [Turns -> Seq(ServerMessages)]
         /\ \A t \in Turns : t # cur => s2c'[t] = s2c[t]
         /\ cur \in cOpen => s2c'[cur] # <<>> /\ Len(s2c'[cur]) = Len(s2c[cur]) + 1
BY DEF Shape

\* The first message of what is in flight, and what is left without it.
LEMMA HeadFacts ==
  ASSUME NEW s \in Seq(ClientMessages), s # <<>>
  PROVE  /\ Opened(s) => Head(s) = "init" /\ ChunksOnly(Tail(s))
         /\ ChunksOnly(s) => Head(s) = "chunk" /\ ChunksOnly(Tail(s))
         /\ OpenedEnded(s) => Head(s) = "init" /\ ChunksEnded(Tail(s))
         /\ ChunksEnded(s) /\ Head(s) # "decode_start" => ChunksEnded(Tail(s))
<1>1. /\ Len(s) \in Nat /\ Len(s) >= 1 /\ Head(s) = s[1] /\ Len(Tail(s)) = Len(s) - 1
      /\ Tail(s) \in Seq(ClientMessages)
      /\ \A k \in 1 .. Len(s) - 1 : Tail(s)[k] = s[k + 1]
  OBVIOUS
<1>2. /\ Opened(s) => Head(s) = "init" /\ ChunksOnly(Tail(s))
      /\ ChunksOnly(s) => Head(s) = "chunk" /\ ChunksOnly(Tail(s))
  BY <1>1 DEF Opened, ChunksOnly
<1>3. ASSUME Len(s) >= 2, s[Len(s)] = "decode_start", \A k \in 2 .. Len(s) - 1 : s[k] = "chunk"
      PROVE  ChunksEnded(Tail(s))
  <2>1. Tail(s) # <<>> /\ Tail(s)[Len(Tail(s))] = "decode_start"
    <3>1. Len(s) - 1 \in 1 .. Len(s) - 1 /\ Len(s) - 1 + 1 = Len(s)
      BY <1>1, <1>3
    <3>2. Tail(s)[Len(s) - 1] = s[Len(s)]
      BY <1>1, <3>1
    <3>3. Tail(s)[Len(Tail(s))] = "decode_start"
      BY <1>1, <1>3, <3>2
    <3>4. Len(Tail(s)) # Len(<<>>)
      BY <1>1, <1>3
    <3>5. QED
      BY <3>3, <3>4
  <2>2. ASSUME NEW k \in 1 .. Len(Tail(s)) - 1 PROVE Tail(s)[k] = "chunk"
    <3>1. k \in 1 .. Len(s) - 1 /\ k + 1 \in 2 .. Len(s) - 1
      BY <1>1, <1>3
    <3>2. QED
      BY <1>1, <1>3, <3>1
  <2>3. QED
    BY <2>1, <2>2 DEF ChunksEnded
<1>4. OpenedEnded(s) => Head(s) = "init" /\ ChunksEnded(Tail(s))
  BY <1>1, <1>3 DEF OpenedEnded
<1>5. ChunksEnded(s) /\ Head(s) # "decode_start" => ChunksEnded(Tail(s))
  BY <1>1, <1>3 DEF ChunksEnded
<1>6. QED
  BY <1>2, <1>4, <1>5

\* What is known of the connection served when the turn in progress talks on
\* it, and there is something to read.
LEMMA Served ==
  ASSUME Inv, cur = turn, Talking, turn \in sOpen, cur \in Turns
  PROVE  /\ s2c[turn] \in Seq(ServerMessages) /\ c2s[turn] \in Seq(ClientMessages)
         /\ TalkInv /\ Shape
BY DEF Inv, Shape

\* A reply after which the server stays on the connection, or leaves it.
LEMMA ReplyStays ==
  ASSUME Shape, cur \in Turns, NEW m \in ServerMessages,
         NEW next \in {"command", "params"}, Reply(m, Stay(next))
  PROVE  /\ s2c' \in [Turns -> Seq(ServerMessages)]
         /\ \A t \in Turns : t # cur => s2c'[t] = s2c[t]
         /\ sOpen' \subseteq sOpen /\ cur' \in {cur, 0} /\ srv' \in {next, "accept"}
         /\ cur' = 0 <=> srv' = "accept"
         /\ cur \in cOpen => /\ cur' = cur /\ srv' = next /\ s2c'[cur] # <<>>
                             /\ Len(s2c'[cur]) = Len(s2c[cur]) + 1
<1>1. cur # 0
  BY DEF Turns
<1>2. CASE s2c' = (IF cur \in cOpen THEN [s2c EXCEPT ![cur] = Append(@, m)] ELSE s2c)
           /\ Stay(next)
  <2>1. srv' = next /\ sOpen' = sOpen /\ cur' = cur
    BY <1>2 DEF Stay
  <2>2. QED
    BY <1>1, <1>2, <2>1, ReplyFacts
<1>3. CASE cur \notin cOpen /\ UNCHANGED s2c /\ Leave
  BY <1>1, <1>3 DEF Shape, Leave
<1>4. QED
  BY <1>2, <1>3 DEF Reply

LEMMA ReplyLeaves ==
  ASSUME Shape, cur \in Turns, NEW m \in ServerMessages, Reply(m, Leave)
  PROVE  /\ s2c' \in [Turns -> Seq(ServerMessages)]
         /\ \A t \in Turns : t # cur => s2c'[t] = s2c[t]
         /\ sOpen' = sOpen \ {cur} /\ cur' = 0 /\ srv' = "accept"
<1>1. CASE s2c' = (IF cur \in cOpen THEN [s2c EXCEPT ![cur] = Append(@, m)] ELSE s2c)
           /\ Leave
  BY <1>1, ReplyFacts DEF Leave
<1>2. CASE cur \notin cOpen /\ UNCHANGED s2c /\ Leave
  BY <1>2 DEF Shape, Leave
<1>3. QED
  BY <1>1, <1>2 DEF Reply

\* Accepting touches no message; the connection accepted was in the backlog.
LEMMA AcceptStep ==
  ASSUME Inv, Accept
  PROVE  Inv'
<1>1. /\ srv = "accept" /\ srv' = "command" /\ backlog # <<>>
      /\ cur' = Head(backlog) /\ backlog' = Tail(backlog)
      /\ UNCHANGED <<env, turn, ppc, c2s, s2c, cOpen, sOpen>>
  BY DEF Accept, client
<1>2. /\ backlog \in Seq(Turns) /\ cur = 0 /\ 0 \notin Turns
  BY <1>1 DEF Inv, Shape, Turns
<1>3. /\ Len(backlog) \in Nat /\ Len(backlog) >= 1 /\ cur' = backlog[1] /\ cur' \in Turns
      /\ backlog' \in Seq(Turns) /\ Len(backlog') = Len(backlog) - 1
      /\ \A k \in 1 .. Len(backlog') : backlog'[k] = backlog[k + 1]
  BY <1>1, <1>2
<1>4. Shape'
  BY <1>1, <1>2, <1>3 DEF Inv, Shape, Turns
<1>5. ConnInv'
  <2>1. \A j, k \in 1 .. Len(backlog) : backlog[j] = backlog[k] => j = k
    BY DEF Inv, ConnInv
  <2>2. \A k \in 1 .. Len(backlog') : k + 1 \in 1 .. Len(backlog) /\ 1 \in 1 .. Len(backlog)
    BY <1>3
  <2>3. \A k \in 1 .. Len(backlog') : backlog'[k] # cur'
    BY <1>3, <2>1, <2>2
  <2>4. \A j, k \in 1 .. Len(backlog') : backlog'[j] = backlog'[k] => j = k
    BY <1>3, <2>1, <2>2
  <2>5. ASSUME NEW t \in Turns, Untouched(t) PROVE Untouched(t)'
    <3>1. \A k \in 1 .. Len(backlog) : backlog[k] # t
      BY <2>5 DEF Untouched
    <3>2. cur' # t /\ \A k \in 1 .. Len(backlog') : backlog'[k] # t
      BY <1>3, <2>2, <3>1
    <3>3. QED
      BY <1>1, <2>5, <3>2 DEF Untouched
  <2>6. QED
    BY <1>1, <2>3, <2>4, <2>5 DEF Inv, ConnInv, Talking
<1>6. TalkInv'
  <2> SUFFICES ASSUME turn \in sOpen PROVE TalkInv'
    BY <1>1 DEF TalkInv
  <2>1. cur # turn /\ ~Handling /\ TalkInv /\ (Unread => Unread')
    BY <1>1, <1>2 DEF Inv, Shape, Handling, Unread
  <2>2. QED
    BY <1>1, <2>1
       DEF TalkInv, FirstSend, AckInv, ParamsInv, ChunksInv, ResultInv, Streaming
<1>7. QED
  BY <1>4, <1>5, <1>6 DEF Inv

LEMMA RunDecodeStep ==
  ASSUME Inv, RunDecode
  PROVE  Inv'
<1>1. /\ srv = "command" /\ Incoming /\ Head(c2s[cur]) = "run_decode" /\ Take
      /\ UNCHANGED <<env, turn, ppc, cOpen, backlog>> /\ Shape
  BY DEF RunDecode, client, Inv
<1>2. /\ cur \in Turns /\ c2s' \in [Turns -> Seq(ClientMessages)]
      /\ \A t \in Turns : t # cur => c2s'[t] = c2s[t]
      /\ c2s[cur] \in Seq(ClientMessages) /\ c2s[cur] # <<>>
      /\ c2s'[cur] = Tail(c2s[cur])
  BY <1>1, TakeFacts
<1>3. /\ s2c' \in [Turns -> Seq(ServerMessages)]
      /\ \A t \in Turns : t # cur => s2c'[t] = s2c[t]
      /\ sOpen' \subseteq sOpen /\ cur' \in {cur, 0} /\ srv' \in {"command", "params", "accept"}
      /\ cur' = 0 <=> srv' = "accept"
      /\ cur \in cOpen => /\ cur' = cur /\ srv' \in {"command", "params"} /\ s2c'[cur] # <<>>
                          /\ Len(s2c'[cur]) = Len(s2c[cur]) + 1
  <2>1. CASE Reply("ack", Stay("params"))
    BY <1>1, <1>2, <2>1, ReplyStays DEF ServerMessages
  <2>2. CASE Reply("error", Stay("command"))
    BY <1>1, <1>2, <2>2, ReplyStays DEF ServerMessages
  <2>3. QED
    BY <2>1, <2>2 DEF RunDecode
<1>4. ServerFrame
  BY <1>1, <1>2, <1>3 DEF ServerFrame
<1>5. ASSUME cur = turn, Talking, cur \in cOpen, turn \in sOpen PROVE TalkInv'
  <2>1. TalkInv /\ s2c[turn] \in Seq(ServerMessages)
    BY <1>2, <1>5, Served
  <2>2. ~Opened(c2s[turn]) /\ ~ChunksOnly(c2s[turn])
    BY <1>1, <1>2, <1>5, HeadFacts
  <2>3. /\ ppc \notin {"send_kv", "send_init", "send_params"} /\ ~Streaming
    BY <1>2, <1>5, <2>1, <2>2 DEF TalkInv, FirstSend, ParamsInv, ChunksInv
  <2>4. ASSUME ppc = "await_ack" PROVE AckInv'
    <3>1. c2s[turn] = <<"run_decode">> /\ s2c[turn] = <<>>
      BY <1>2, <1>5, <2>1, <2>4 DEF TalkInv, AckInv, Unread
    <3>2. c2s'[turn] = <<>> /\ Len(s2c'[turn]) = 1
      BY <1>2, <1>3, <1>5, <3>1
    <3>3. QED
      BY <1>1, <1>3, <1>5, <3>2 DEF AckInv, Handling
  <2>5. ResultInv'
    BY <1>1, <1>3, <1>5 DEF ResultInv
  <2>6. QED
    BY <1>1, <2>3, <2>4, <2>5 DEF TalkInv, Streaming
<1>6. QED
  BY <1>2, <1>4, <1>5, ServerStepInv

LEMMA RunDecodeAbktStep ==
  ASSUME Inv, RunDecodeAbkt
  PROVE  Inv'
<1>1. /\ srv = "command" /\ Incoming /\ Head(c2s[cur]) = "init" /\ Take
      /\ UNCHANGED <<env, turn, ppc, cOpen, backlog>> /\ Shape
  BY DEF RunDecodeAbkt, client, Inv
<1>2. /\ cur \in Turns /\ c2s' \in [Turns -> Seq(ClientMessages)]
      /\ \A t \in Turns : t # cur => c2s'[t] = c2s[t]
      /\ c2s[cur] \in Seq(ClientMessages) /\ c2s[cur] # <<>>
      /\ c2s'[cur] = Tail(c2s[cur])
  BY <1>1, TakeFacts
<1>3. /\ s2c' \in [Turns -> Seq(ServerMessages)]
      /\ \A t \in Turns : t # cur => s2c'[t] = s2c[t]
      /\ sOpen' \subseteq sOpen /\ cur' \in {cur, 0} /\ srv' \in {"command", "stream", "accept"}
      /\ cur' = 0 <=> srv' = "accept"
      /\ cur \in cOpen => cur' = cur /\ \/ srv' = "stream" /\ s2c'[cur] = s2c[cur]
                                        \/ srv' = "command" /\ s2c'[cur] # <<>>
  <2>1. CASE Stay("stream") /\ UNCHANGED s2c
    <3>1. cur # 0
      BY <1>2 DEF Turns
    <3>2. QED
      BY <1>1, <2>1, <3>1 DEF Stay, Shape
  <2>2. CASE Reply("error", Stay("command"))
    BY <1>1, <1>2, <2>2, ReplyStays DEF ServerMessages
  <2>3. QED
    BY <2>1, <2>2 DEF RunDecodeAbkt
<1>4. ServerFrame
  BY <1>1, <1>2, <1>3 DEF ServerFrame
<1>5. ASSUME cur = turn, Talking, cur \in cOpen, turn \in sOpen PROVE TalkInv'
  <2>1. TalkInv
    BY DEF Inv
  <2>2. /\ Opened(c2s[turn]) => ChunksOnly(c2s'[turn])
        /\ OpenedEnded(c2s[turn]) => ChunksEnded(c2s'[turn])
        /\ ~ChunksOnly(c2s[turn])
    <3>1. /\ Opened(c2s[turn]) => ChunksOnly(Tail(c2s[turn]))
          /\ OpenedEnded(c2s[turn]) => ChunksEnded(Tail(c2s[turn]))
          /\ ChunksOnly(c2s[turn]) => Head(c2s[turn]) = "chunk"
      BY <1>2, <1>5, HeadFacts
    <3>2. QED
      BY <1>1, <1>2, <1>5, <3>1
  <2>3. ppc \notin {"send_kv", "send_init", "send_params", "await_ack"}
    BY <1>1, <1>2, <1>5, <2>1 DEF TalkInv, FirstSend, ParamsInv, AckInv
  <2>4. ASSUME Streaming PROVE ChunksInv'
    <3>1. Opened(c2s[turn]) /\ s2c[turn] = <<>>
      BY <1>5, <2>1, <2>2, <2>4 DEF TalkInv, ChunksInv, Unread
    <3>2. QED
      BY <1>1, <1>3, <1>5, <2>2, <3>1 DEF ChunksInv
  <2>5. ASSUME ppc = "await_result" PROVE ResultInv'
    <3>1. \/ s2c[turn] # <<>>
          \/ OpenedEnded(c2s[turn])
      BY <1>1, <1>5, <2>1, <2>5 DEF TalkInv, ResultInv
    <3>2. QED
      BY <1>1, <1>3, <1>5, <2>2, <3>1 DEF ResultInv
  <2>6. QED
    BY <1>1, <2>3, <2>4, <2>5 DEF TalkInv, Streaming
<1>6. QED
  BY <1>2, <1>4, <1>5, ServerStepInv

LEMMA UnknownOpStep ==
  ASSUME Inv, UnknownOp
  PROVE  Inv'
<1>1. /\ srv = "command" /\ Incoming /\ Take /\ Reply("error", Stay("command"))
      /\ Head(c2s[cur]) \in {"params", "chunk", "decode_start"}
      /\ UNCHANGED <<env, turn, ppc, cOpen, backlog>> /\ Shape
  BY DEF UnknownOp, client, Inv
<1>2. /\ cur \in Turns /\ c2s' \in [Turns -> Seq(ClientMessages)]
      /\ \A t \in Turns : t # cur => c2s'[t] = c2s[t]
      /\ c2s[cur] \in Seq(ClientMessages) /\ c2s[cur] # <<>>
      /\ c2s'[cur] = Tail(c2s[cur])
  BY <1>1, TakeFacts
<1>3. /\ s2c' \in [Turns -> Seq(ServerMessages)]
      /\ \A t \in Turns : t # cur => s2c'[t] = s2c[t]
      /\ sOpen' \subseteq sOpen /\ cur' \in {cur, 0} /\ srv' \in {"command", "accept"}
      /\ cur' = 0 <=> srv' = "accept"
      /\ cur \in cOpen => cur' = cur /\ srv' = "command" /\ s2c'[cur] # <<>>
  BY <1>1, <1>2, ReplyStays DEF ServerMessages
<1>4. ServerFrame
  BY <1>1, <1>2, <1>3 DEF ServerFrame
<1>5. ASSUME cur = turn, Talking, cur \in cOpen, turn \in sOpen PROVE TalkInv'
  <2>1. TalkInv
    BY DEF Inv
  <2>2. ~Opened(c2s[turn]) /\ (ChunksOnly(c2s[turn]) => ChunksOnly(c2s'[turn]))
    <3>1. Head(c2s[turn]) # "init"
      BY <1>1, <1>5
    <3>2. /\ Opened(c2s[turn]) => Head(c2s[turn]) = "init"
          /\ ChunksOnly(c2s[turn]) => ChunksOnly(Tail(c2s[turn]))
      BY <1>2, <1>5, HeadFacts
    <3>3. QED
      BY <1>2, <1>5, <3>1, <3>2
  <2>3. ppc \notin {"send_kv", "send_init", "send_params", "await_ack"}
    BY <1>1, <1>2, <1>5, <2>1 DEF TalkInv, FirstSend, ParamsInv, AckInv
  <2>4. Streaming => ChunksInv'
    BY <1>1, <1>3, <1>5, <2>1, <2>2 DEF TalkInv, ChunksInv
  <2>5. ResultInv'
    BY <1>1, <1>3, <1>5 DEF ResultInv
  <2>6. QED
    BY <1>1, <2>3, <2>4, <2>5 DEF TalkInv, Streaming
<1>6. QED
  BY <1>2, <1>4, <1>5, ServerStepInv

\* Steps after which the connection is closed by the server.
LEMMA LeavingStep ==
  ASSUME Inv, Shutdown \/ Disconnected \/ DecodeAbkt
  PROVE  Inv'
<1>1. Shape /\ UNCHANGED <<env, turn, ppc, cOpen>>
  BY DEF Inv, Shutdown, Disconnected, DecodeAbkt, client
<1>2. /\ cur \in Turns /\ c2s' \in [Turns -> Seq(ClientMessages)]
      /\ \A t \in Turns : t # cur => c2s'[t] = c2s[t]
  <2>1. CASE Shutdown
    BY <1>1, <2>1, TakeFacts DEF Shutdown
  <2>2. CASE Disconnected \/ DecodeAbkt
    <3>1. cur # 0 /\ cur \in 0 .. MaxTurns
      BY <1>1, <2>2 DEF Disconnected, DecodeAbkt, Shape
    <3>2. cur \in Turns
      BY <3>1, BoundsAssumption DEF Turns
    <3>3. c2s' = c2s
      BY <2>2 DEF Disconnected, DecodeAbkt
    <3>4. QED
      BY <1>1, <3>2, <3>3 DEF Shape
  <2>3. QED
    BY <2>1, <2>2
<1>3. /\ s2c' \in [Turns -> Seq(ServerMessages)]
      /\ \A t \in Turns : t # cur => s2c'[t] = s2c[t]
      /\ sOpen' \subseteq sOpen \ {cur} /\ cur' = 0 /\ srv' \in {"accept", "down"}
      /\ backlog' \in {backlog, <<>>}
  <2>1. CASE Shutdown
    <3>1. CASE cur \notin cOpen /\ Leave /\ UNCHANGED <<s2c, backlog>>
      BY <1>1, <3>1 DEF Shape, Leave
    <3>2. CASE /\ s2c' = (IF cur \in cOpen THEN [s2c EXCEPT ![cur] = Append(@, "bye")] ELSE s2c)
               /\ srv' = "down" /\ sOpen' = {} /\ cur' = 0 /\ backlog' = <<>>
      BY <1>1, <1>2, <3>2, ReplyFacts DEF ServerMessages
    <3>3. QED
      BY <2>1, <3>1, <3>2 DEF Shutdown
  <2>2. CASE Disconnected
    BY <1>1, <2>2 DEF Disconnected, Shape, Leave
  <2>3. CASE DecodeAbkt
    <3>1. backlog' = backlog /\ (Reply("result", Leave) \/ Reply("error", Leave))
      BY <2>3 DEF DecodeAbkt
    <3>2. QED
      BY <1>1, <1>2, <3>1, ReplyLeaves DEF ServerMessages
  <2>4. QED
    BY <2>1, <2>2, <2>3
<1>4. ServerFrame
  BY <1>1, <1>2, <1>3 DEF ServerFrame
<1>5. ASSUME cur = turn, turn \in sOpen' PROVE TalkInv'
  BY <1>3, <1>5
<1>6. QED
  BY <1>2, <1>4, <1>5, ServerStepInv

LEMMA DecodeParamsStep ==
  ASSUME Inv, DecodeParams
  PROVE  Inv'
<1>1. srv = "params" /\ Shape /\ UNCHANGED <<env, turn, ppc, cOpen, backlog>>
  BY DEF Inv, DecodeParams, client
<1>2. cur \in Turns /\ cur # 0
  BY <1>1 DEF Shape, Turns
<1>3. /\ c2s' \in [Turns -> Seq(ClientMessages)]
      /\ \A t \in Turns : t # cur => c2s'[t] = c2s[t]
  <2>1. CASE Take /\ Incoming
    BY <1>1, <2>1, TakeFacts
  <2>2. CASE UNCHANGED c2s
    BY <1>1, <2>2 DEF Shape
  <2>3. QED
    BY <2>1, <2>2 DEF DecodeParams
<1>4. /\ s2c' \in [Turns -> Seq(ServerMessages)]
      /\ \A t \in Turns : t # cur => s2c'[t] = s2c[t]
      /\ sOpen' \subseteq sOpen /\ cur' \in {cur, 0}
      /\ srv' \in {"command", "decode_fp16", "accept"} /\ (cur' = 0 <=> srv' = "accept")
      /\ cur \in cOpen =>
           \/ cur' = cur /\ srv' = "decode_fp16" /\ s2c'[cur] = s2c[cur]
           \/ s2c'[cur] # <<>>
      /\ cur \in cOpen => c2s[cur] # <<>>
  <2>1. CASE Incoming /\ Stay("decode_fp16") /\ UNCHANGED s2c
    BY <1>1, <1>2, <2>1 DEF Stay, Shape, Incoming
  <2>2. CASE (Incoming \/ EndOfFile) /\ Reply("error", Stay("command"))
    BY <1>1, <1>2, <2>2, ReplyStays DEF ServerMessages, Incoming, EndOfFile
  <2>3. QED
    BY <2>1, <2>2 DEF DecodeParams
<1>5. ServerFrame
  BY <1>1, <1>3, <1>4 DEF ServerFrame
<1>6. ASSUME cur = turn, Talking, cur \in cOpen, turn \in sOpen PROVE TalkInv'
  <2>1. TalkInv /\ c2s[turn] # <<>>
    BY <1>4, <1>6 DEF Inv
  <2>2. ppc \notin {"send_kv", "send_init", "send_params", "await_ack"} /\ ~Streaming
    BY <1>1, <1>6, <2>1 DEF TalkInv, FirstSend, ParamsInv, AckInv, ChunksInv, Unread
  <2>3. ResultInv'
    BY <1>1, <1>4, <1>6 DEF ResultInv
  <2>4. QED
    BY <1>1, <2>2, <2>3 DEF TalkInv, Streaming
<1>7. QED
  BY <1>2, <1>5, <1>6, ServerStepInv

LEMMA DecodeFp16Step ==
  ASSUME Inv, DecodeFp16
  PROVE  Inv'
<1>1. /\ srv = "decode_fp16" /\ Shape /\ UNCHANGED <<env, turn, ppc, c2s, cOpen, backlog>>
      /\ Reply("result", Stay("command")) \/ Reply("error", Stay("command"))
  BY DEF Inv, DecodeFp16, client
<1>2. cur \in Turns
  BY <1>1 DEF Shape, Turns
<1>3. /\ s2c' \in [Turns -> Seq(ServerMessages)]
      /\ \A t \in Turns : t # cur => s2c'[t] = s2c[t]
      /\ sOpen' \subseteq sOpen /\ cur' \in {cur, 0} /\ srv' \in {"command", "accept"}
      /\ cur' = 0 <=> srv' = "accept"
      /\ cur \in cOpen => s2c'[cur] # <<>>
  BY <1>1, <1>2, ReplyStays DEF ServerMessages
<1>4. ServerFrame
  BY <1>1, <1>3 DEF ServerFrame, Shape
<1>5. ASSUME cur = turn, Talking, cur \in cOpen, turn \in sOpen PROVE TalkInv'
  <2>1. TalkInv
    BY DEF Inv
  <2>2. ppc \notin {"send_kv", "send_init", "send_params", "await_ack"} /\ ~Streaming
    BY <1>1, <1>5, <2>1
       DEF TalkInv, FirstSend, ParamsInv, AckInv, ChunksInv, Unread, Handling
  <2>3. ResultInv'
    BY <1>1, <1>3, <1>5 DEF ResultInv
  <2>4. QED
    BY <1>1, <2>2, <2>3 DEF TalkInv, Streaming
<1>6. QED
  BY <1>2, <1>4, <1>5, ServerStepInv

LEMMA StreamStep ==
  ASSUME Inv, ReceiveChunk \/ ReceiveDecodeStart
  PROVE  Inv'
<1>1. /\ srv = "stream" /\ Incoming /\ Take
      /\ UNCHANGED <<env, turn, ppc, s2c, cOpen, sOpen, backlog, cur>> /\ Shape
      /\ \/ Head(c2s[cur]) # "decode_start" /\ srv' = "stream"
         \/ Head(c2s[cur]) = "decode_start" /\ srv' = "decode_abkt"
  BY DEF ReceiveChunk, ReceiveDecodeStart, Stay, client, Inv
<1>2. /\ cur \in Turns /\ cur # 0 /\ c2s' \in [Turns -> Seq(ClientMessages)]
      /\ \A t \in Turns : t # cur => c2s'[t] = c2s[t]
      /\ c2s[cur] \in Seq(ClientMessages) /\ c2s[cur] # <<>>
      /\ c2s'[cur] = Tail(c2s[cur])
  BY <1>1, TakeFacts DEF Turns
<1>3. ServerFrame
  BY <1>1, <1>2 DEF ServerFrame, Shape
<1>4. ASSUME cur = turn, Talking, cur \in cOpen, turn \in sOpen PROVE TalkInv'
  <2>1. TalkInv
    BY DEF Inv
  <2>2. /\ ChunksOnly(c2s[turn]) => Head(c2s[turn]) = "chunk" /\ ChunksOnly(c2s'[turn])
        /\ ChunksEnded(c2s[turn]) /\ Head(c2s[turn]) # "decode_start"
             => ChunksEnded(c2s'[turn])
    <3>1. c2s[turn] \in Seq(ClientMessages) /\ c2s[turn] # <<>> /\ c2s'[turn] = Tail(c2s[turn])
      BY <1>2, <1>4
    <3> QED
      BY <3>1, HeadFacts
  <2>3. ppc \notin {"send_kv", "send_init", "send_params", "await_ack"}
    BY <1>1, <1>4, <2>1
       DEF TalkInv, FirstSend, ParamsInv, AckInv, Unread, Handling
  <2>4. Streaming => ChunksInv'
    BY <1>1, <1>4, <2>1, <2>2 DEF TalkInv, ChunksInv, Unread
  <2>5. ppc = "await_result" => ResultInv'
    BY <1>1, <1>4, <2>1, <2>2 DEF TalkInv, ResultInv, Unread, Handling
  <2>6. QED
    BY <1>1, <2>3, <2>4, <2>5 DEF TalkInv, Streaming
<1>5. QED
  BY <1>2, <1>3, <1>4, ServerStepInv
-----------------------------------------------------------------------------
\* The probe thread leaves the session alone.
LEMMA OtherStep ==
  ASSUME Inv, ProbeStep \/ UNCHANGED vars
  PROVE  Inv'
<1>1. UNCHANGED <<env, turn, ppc, c2s, s2c, cOpen, sOpen, backlog, srv, cur>>
  BY DEF ProbeStep, ProbeIteration, ProbeEnds, vars, client, net, server
<1>2. Shape' /\ ConnInv'
  BY <1>1 DEF Inv, Shape, ConnInv, Untouched, Talking
<1>3. TalkInv'
  BY <1>1 DEF Inv, TalkInv, FirstSend, AckInv, ParamsInv, ChunksInv, ResultInv,
              Unread, Handling, Streaming
<1>4. QED
  BY <1>2, <1>3 DEF Inv

\* Every step keeps the invariant.
LEMMA SessionStep == Inv /\ [Next]_vars => Inv'
<1> SUFFICES ASSUME Inv, [Next]_vars PROVE Inv'
  OBVIOUS
<1>1. CASE \E path \in {"abkt", "fp16"} : StartTurn(path)
  BY <1>1, StartTurnStep
<1>2. CASE ClientStep
  BY <1>2, ConnectStep, ClientSendStep, ProbesStep, SendChunkStep, ReceiveStep,
     RaiseStep, CloseTurnStep DEF ClientStep
<1>3. CASE ServerStep
  BY <1>3, AcceptStep, RunDecodeStep, RunDecodeAbktStep, UnknownOpStep, LeavingStep,
     DecodeParamsStep, DecodeFp16Step, StreamStep DEF ServerStep
<1>4. CASE ProbeStep \/ UNCHANGED vars
  BY <1>4, OtherStep
<1>5. QED
  BY <1>1, <1>2, <1>3, <1>4 DEF Next

\* run_prefill_turn and the handlers of the decode node never both wait for
\* the other on the connection of the turn with nothing in flight, for any
\* number of turns and chunks, whatever raises on either side.
THEOREM NodesNeverBothWait == Spec => []NoMutualWait
<1>1. Init => Inv
  BY SessionInit
<1>2. Inv /\ [Next]_vars => Inv'
  BY SessionStep
<1>3. Inv => NoMutualWait
  BY NoMutualWaitFollows
<1>4. QED
  BY <1>1, <1>2, <1>3, PTL DEF Spec
-----------------------------------------------------------------------------
(* The session implements PDTurns, liveness aside. *)

Has(s, m) == \E k \in 1 .. Len(s) : s[k] = m

\* What is in flight while the turn in progress talks, whether or not the
\* server still holds its connection, and what the replies stand for.
ReportInv ==
  /\ (cur \in Turns => cur \in sOpen) /\ \A k \in 1 .. Len(backlog) : backlog[k] \in sOpen
  /\ \A t \in Turns : Has(s2c[t], "result") => t \in decoded
  /\ Talking => ~Has(c2s[turn], "shutdown") /\ ~Has(s2c[turn], "bye")
  /\ Talking /\ ppc # "await_ack" => ~Has(c2s[turn], "run_decode") /\ ~Has(s2c[turn], "ack")
  /\ ppc \in {"send_kv", "send_init"} => c2s[turn] = <<>> /\ s2c[turn] = <<>>
  /\ ppc = "await_ack" => \/ c2s[turn] = <<"run_decode">> /\ s2c[turn] = <<>>
                          \/ c2s[turn] = <<>> /\ Len(s2c[turn]) <= 1
  /\ ppc = "close" /\ got \notin {"error", "exception"} => turn \in decoded

LEMMA HasFacts ==
  ASSUME NEW S, NEW s \in Seq(S), NEW m \in S, NEW n
  PROVE  /\ Has(Append(s, m), n) <=> Has(s, n) \/ n = m
         /\ s # <<>> => (Has(Tail(s), n) => Has(s, n)) /\ Has(s, Head(s)) /\ Head(s) \in S
         /\ ~Has(<<>>, n)
<1>1. Has(Append(s, m), n) <=> Has(s, n) \/ n = m
  <2>1. /\ Len(Append(s, m)) = Len(s) + 1 /\ Len(s) \in Nat /\ Append(s, m)[Len(s) + 1] = m
        /\ \A k \in 1 .. Len(s) : Append(s, m)[k] = s[k]
    OBVIOUS
  <2>2. QED
    BY <2>1 DEF Has
<1>2. s # <<>> => (Has(Tail(s), n) => Has(s, n)) /\ Has(s, Head(s)) /\ Head(s) \in S
  <2>1. SUFFICES ASSUME s # <<>>
                 PROVE  (Has(Tail(s), n) => Has(s, n)) /\ Has(s, Head(s)) /\ Head(s) \in S
    OBVIOUS
  <2>2. /\ Len(s) \in Nat \ {0} /\ Len(Tail(s)) = Len(s) - 1 /\ Head(s) = s[1] /\ s[1] \in S
        /\ \A k \in 1 .. Len(s) - 1 : Tail(s)[k] = s[k + 1]
    BY <2>1
  <2>3. QED
    BY <2>2 DEF Has
<1>3. ~Has(<<>>, n)
  BY DEF Has
<1>4. QED
  BY <1>1, <1>2, <1>3

LEMMA ReportInit == Init => ReportInv
<1> SUFFICES ASSUME Init PROVE ReportInv
  OBVIOUS
<1>1. cur \notin Turns
  BY DEF Init, Turns
<1>2. QED
  BY <1>1, HasFacts DEF Init, ReportInv, Has, Talking

\* The steps of the prefill node.
LEMMA ReportSend ==
  ASSUME Inv, ReportInv, Talking, NEW m \in ClientMessages, m # "shutdown", ClientSends(m),
         Talking', UNCHANGED <<turn, s2c, sOpen, backlog, cur, decoded>>,
         ppc' \notin {"send_kv", "send_init", "close"}, ppc # "await_ack",
         m = "run_decode" => ppc = "send_kv" /\ ppc' = "await_ack",
         m # "run_decode" => ppc' # "await_ack"
  PROVE  ReportInv'
<1>1. ppc # "idle" /\ turn \in Turns
  BY DEF Inv, Shape, Talking
<1>2. c2s'[turn] = Append(c2s[turn], m) \/ c2s'[turn] = c2s[turn]
  BY <1>1 DEF Inv, Shape, ClientSends
<1>3. c2s[turn] \in Seq(ClientMessages)
  BY <1>1 DEF Inv, Shape
<1>4. ASSUME NEW n, Has(c2s'[turn], n) PROVE Has(c2s[turn], n) \/ n = m
  <2>1. Has(Append(c2s[turn], m), n) <=> Has(c2s[turn], n) \/ n = m
    BY <1>3, HasFacts
  <2>2. QED
    BY <1>2, <1>4, <2>1
<1>5. CASE m = "run_decode"
  <2>1. c2s[turn] = <<>> /\ s2c[turn] = <<>>
    BY <1>5 DEF ReportInv
  <2>2. c2s'[turn] = <<"run_decode">> \/ c2s'[turn] = <<>>
    BY <1>2, <1>3, <1>5, <2>1
  <2>3. Len(s2c[turn]) <= 1
    BY <2>1
  <2>4. QED
    BY <1>4, <1>5, <2>1, <2>2, <2>3 DEF ReportInv
<1>6. CASE m # "run_decode"
  BY <1>4, <1>6 DEF ReportInv
<1>7. QED
  BY <1>5, <1>6

LEMMA ReportClient ==
  ASSUME Inv, ReportInv, ClientStep \/ \E path \in {"abkt", "fp16"} : StartTurn(path)
  PROVE  ReportInv'
<1>1. ASSUME NEW path, StartTurn(path) PROVE ReportInv'
  BY <1>1 DEF StartTurn, ReportInv, Talking, net, server
<1>2. CASE Connect
  <2>1. /\ ppc \in {"connect_fp16", "connect_abkt"} /\ ppc' \in {"send_kv", "send_init"}
        /\ sOpen' = sOpen \cup {turn} /\ backlog' = Append(backlog, turn)
        /\ UNCHANGED <<turn, got, c2s, s2c, cur, decoded>>
    BY <1>2 DEF Connect, server
  <2>2. turn \in Turns /\ Untouched(turn) /\ backlog \in Seq(Turns)
    BY <2>1 DEF Inv, Shape, ConnInv, Talking
  <2>3. /\ Len(backlog') = Len(backlog) + 1 /\ Len(backlog) \in Nat
        /\ backlog'[Len(backlog) + 1] = turn
        /\ \A k \in 1 .. Len(backlog) : backlog'[k] = backlog[k]
    BY <2>1, <2>2
  <2>4. \A n : ~Has(c2s[turn], n) /\ ~Has(s2c[turn], n)
    BY <2>2 DEF Untouched, Has
  <2>5. \A k \in 1 .. Len(backlog') : backlog'[k] \in sOpen'
    BY <2>1, <2>3 DEF ReportInv
  <2>6. QED
    BY <2>1, <2>2, <2>4, <2>5 DEF ReportInv, Untouched
<1>3. CASE ClientSend
  <2>1. PICK s \in SendStates : ppc = s[1] /\ ClientSends(s[2]) /\ ppc' = s[3]
    BY <1>3 DEF ClientSend
  <2>2. UNCHANGED <<turn, s2c, sOpen, backlog, cur, decoded>>
    BY <1>3 DEF ClientSend, server
  <2>3. /\ s[2] \in ClientMessages /\ s[2] # "shutdown" /\ Talking /\ Talking'
        /\ ppc' \notin {"send_kv", "send_init", "close"} /\ ppc # "await_ack"
        /\ s[2] = "run_decode" => ppc = "send_kv" /\ ppc' = "await_ack"
        /\ s[2] # "run_decode" => ppc' # "await_ack"
    BY <2>1 DEF SendStates, ClientMessages, Talking
  <2>4. QED
    BY <2>1, <2>2, <2>3, ReportSend
<1>4. CASE SendChunk
  <2>1. /\ ppc = "send_chunks" /\ ppc' \in {"send_chunks", "resume"} /\ ClientSends("chunk")
        /\ UNCHANGED <<turn, s2c, sOpen, backlog, cur, decoded>>
    BY <1>4 DEF SendChunk, server
  <2>2. "chunk" \in ClientMessages /\ Talking /\ Talking'
    BY <2>1 DEF ClientMessages, Talking
  <2>3. QED
    BY <2>1, <2>2, ReportSend
<1>5. CASE PauseProbes \/ ResumeProbes
  <2>1. /\ ppc \in {"pause", "resume"} /\ ppc' \in {"send_chunks", "send_start"}
        /\ UNCHANGED <<turn, got, c2s, s2c, sOpen, backlog, cur, decoded>>
    BY <1>5 DEF PauseProbes, ResumeProbes, net, server
  <2>2. QED
    BY <2>1 DEF ReportInv, Talking
<1>6. CASE Receive
  <2>1. /\ ppc \in {"await_ack", "await_result"} /\ s2c[turn] # <<>>
        /\ s2c' = [s2c EXCEPT ![turn] = Tail(@)]
        /\ ppc = "await_ack" => ppc' = "send_params"
        /\ ppc = "await_result" => ppc' = "close" /\ got' = Head(s2c[turn])
        /\ UNCHANGED <<turn, c2s, sOpen, backlog, cur, decoded>>
    BY <1>6 DEF Receive, server
  <2>2. turn \in Turns /\ s2c[turn] \in Seq(ServerMessages)
    BY <2>1 DEF Inv, Shape
  <2>3. s2c'[turn] = Tail(s2c[turn]) /\ \A t \in Turns : t # turn => s2c'[t] = s2c[t]
    BY <2>1, <2>2 DEF Inv, Shape
  <2>4. /\ \A n : Has(s2c'[turn], n) => Has(s2c[turn], n)
        /\ Has(s2c[turn], Head(s2c[turn])) /\ Head(s2c[turn]) \in ServerMessages
    BY <2>1, <2>2, <2>3, HasFacts DEF ServerMessages
  <2>5. \A t \in Turns : Has(s2c'[t], "result") => t \in decoded
    BY <2>3, <2>4 DEF ReportInv
  <2>6. CASE ppc = "await_ack"
    <3>1. c2s[turn] = <<>> /\ Len(s2c[turn]) <= 1
      <4>1. \/ c2s[turn] = <<"run_decode">> /\ s2c[turn] = <<>>
            \/ c2s[turn] = <<>> /\ Len(s2c[turn]) <= 1
        BY <2>6 DEF ReportInv
      <4>2. QED
        BY <2>1, <4>1
    <3>2. Tail(s2c[turn]) = <<>>
      BY <2>1, <2>2, <3>1
    <3>3. s2c'[turn] = <<>>
      BY <2>3, <3>2
    <3>4. \A n : ~Has(c2s[turn], n) /\ ~Has(s2c'[turn], n)
      BY <3>1, <3>3 DEF Has
    <3>5. QED
      BY <2>1, <2>5, <2>6, <3>4 DEF ReportInv
  <2>7. CASE ppc = "await_result"
    <3>1. Talking /\ ~Talking'
      BY <2>1, <2>7 DEF Talking
    <3>2. Head(s2c[turn]) \notin {"ack", "bye"}
      BY <2>4, <2>7, <3>1 DEF ReportInv
    <3>3. got' \in {"result", "error"}
      BY <2>1, <2>4, <2>7, <3>2 DEF ServerMessages
    <3>4. got' = "result" => turn \in decoded
      BY <2>1, <2>2, <2>4, <2>7 DEF ReportInv
    <3>5. QED
      BY <2>1, <2>5, <2>7, <3>1, <3>3, <3>4 DEF ReportInv
  <2>8. QED
    BY <2>1, <2>6, <2>7
<1>7. CASE Raise
  <2>1. /\ ppc' = "close" /\ got' = "exception"
        /\ UNCHANGED <<turn, c2s, s2c, sOpen, backlog, cur, decoded>>
    BY <1>7 DEF Raise, net, server
  <2>2. QED
    BY <2>1 DEF ReportInv, Talking
<1>8. CASE CloseTurn
  <2>1. ppc' = "idle" /\ UNCHANGED <<s2c, sOpen, backlog, cur, decoded>>
    BY <1>8 DEF CloseTurn, server
  <2>2. QED
    BY <2>1 DEF ReportInv, Talking
<1>9. QED
  BY <1>1, <1>2, <1>3, <1>4, <1>5, <1>6, <1>7, <1>8 DEF ClientStep

\* The steps of the decode node: what they do to the connection served.
ReplyMeans(t, m) ==
  /\ m = "result" => t \in decoded'
  /\ m = "ack" => c2s[t] # <<>> /\ Head(c2s[t]) = "run_decode"
  /\ m = "bye" => c2s[t] # <<>> /\ Head(c2s[t]) = "shutdown"

Effects ==
  /\ UNCHANGED <<turn, ppc, got, outcome, cOpen>>
  /\ decoded' \in {decoded, decoded \cup {cur}}
  /\ c2s' # c2s => c2s[cur] # <<>> /\ c2s' = [c2s EXCEPT ![cur] = Tail(@)]
  /\ s2c' # s2c => \E m \in ServerMessages :
                     ReplyMeans(cur, m) /\ s2c' = [s2c EXCEPT ![cur] = Append(@, m)]
  /\ cur \in cOpen => \/ c2s[cur] # <<>> /\ c2s' = [c2s EXCEPT ![cur] = Tail(@)]
                      \/ srv \in {"decode_fp16", "decode_abkt"}

Moves ==
  \/ UNCHANGED <<cur, sOpen, backlog>>
  \/ cur' = 0 /\ sOpen' = sOpen \ {cur} /\ backlog' = backlog
  \/ cur' = 0 /\ sOpen' = {} /\ backlog' = <<>>

LEMMA ReplyEffects ==
  ASSUME NEW m \in ServerMessages, ReplyMeans(cur, m), UNCHANGED backlog,
         Reply(m, Leave) \/ \E next \in {"command", "params"} : Reply(m, Stay(next))
  PROVE  /\ Moves
         /\ s2c' # s2c => \E n \in ServerMessages :
                            ReplyMeans(cur, n) /\ s2c' = [s2c EXCEPT ![cur] = Append(@, n)]
BY DEF Reply, Leave, Stay, Moves

LEMMA ServerEffects ==
  ASSUME Inv, ServerStep, ~Accept
  PROVE  cur \in Turns /\ Effects /\ Moves
<1>1. srv \notin {"accept", "down"} /\ cur # 0 /\ cur \in 0 .. MaxTurns
  BY DEF ServerStep, RunDecode, RunDecodeAbkt, UnknownOp, Shutdown, Disconnected, DecodeParams,
         DecodeFp16, ReceiveChunk, ReceiveDecodeStart, DecodeAbkt, Inv, Shape
<1>2. cur \in Turns
  BY <1>1, BoundsAssumption DEF Turns
<1>3. UNCHANGED <<turn, ppc, got, outcome, cOpen>> /\ decoded' \in {decoded, decoded \cup {cur}}
  BY DEF ServerStep, RunDecode, RunDecodeAbkt, UnknownOp, Shutdown, Disconnected, DecodeParams,
         DecodeFp16, ReceiveChunk, ReceiveDecodeStart, DecodeAbkt, client, server
<1>4. CASE RunDecode
  <2>1. UNCHANGED backlog /\ Take /\ Incoming /\ ReplyMeans(cur, "ack") /\ ReplyMeans(cur, "error")
    BY <1>4 DEF RunDecode, Incoming, ReplyMeans
  <2>2. Reply("ack", Stay("params")) \/ Reply("error", Stay("command"))
    BY <1>4 DEF RunDecode
  <2>3. QED
    BY <1>2, <1>3, <2>1, <2>2, ReplyEffects DEF Effects, Take, Incoming, ServerMessages
<1>5. CASE RunDecodeAbkt
  <2>1. UNCHANGED backlog /\ Take /\ Incoming /\ ReplyMeans(cur, "error")
    BY <1>5 DEF RunDecodeAbkt, ReplyMeans
  <2>2. CASE Stay("stream") /\ UNCHANGED s2c
    BY <1>2, <1>3, <2>1, <2>2 DEF Effects, Moves, Take, Incoming, Stay
  <2>3. CASE Reply("error", Stay("command"))
    BY <1>2, <1>3, <2>1, <2>3, ReplyEffects DEF Effects, Take, Incoming, ServerMessages
  <2>4. QED
    BY <1>5, <2>2, <2>3 DEF RunDecodeAbkt
<1>6. CASE UnknownOp
  <2>1. UNCHANGED backlog /\ Take /\ Incoming /\ ReplyMeans(cur, "error")
    BY <1>6 DEF UnknownOp, ReplyMeans
  <2>2. Reply("error", Stay("command"))
    BY <1>6 DEF UnknownOp
  <2>3. QED
    BY <1>2, <1>3, <2>1, <2>2, ReplyEffects DEF Effects, Take, Incoming, ServerMessages
<1>7. CASE Shutdown
  <2>1. Take /\ Incoming /\ ReplyMeans(cur, "bye")
    BY <1>7 DEF Shutdown, Incoming, ReplyMeans
  <2>2. Moves
    BY <1>7 DEF Shutdown, Moves, Leave
  <2>3. s2c' # s2c => s2c' = [s2c EXCEPT ![cur] = Append(@, "bye")]
    BY <1>7 DEF Shutdown
  <2>4. QED
    BY <1>2, <1>3, <2>1, <2>2, <2>3 DEF Effects, Take, Incoming, ServerMessages
<1>8. CASE Disconnected
  BY <1>2, <1>3, <1>8 DEF Disconnected, Effects, Moves, Leave, EndOfFile
<1>9. CASE DecodeParams
  <2>1. UNCHANGED backlog /\ ReplyMeans(cur, "error")
    BY <1>9 DEF DecodeParams, ReplyMeans
  <2>2. CASE Incoming /\ Take /\ Stay("decode_fp16") /\ UNCHANGED s2c
    BY <1>2, <1>3, <2>1, <2>2 DEF Effects, Moves, Take, Incoming, Stay
  <2>3. CASE Incoming /\ Take /\ Reply("error", Stay("command"))
    BY <1>2, <1>3, <2>1, <2>3, ReplyEffects DEF Effects, Take, Incoming, ServerMessages
  <2>4. CASE EndOfFile /\ Reply("error", Stay("command")) /\ UNCHANGED c2s
    BY <1>2, <1>3, <2>1, <2>4, ReplyEffects DEF Effects, EndOfFile, ServerMessages
  <2>5. QED
    BY <1>9, <2>2, <2>3, <2>4 DEF DecodeParams
<1>10. CASE DecodeFp16
  <2>1. UNCHANGED <<c2s, backlog>> /\ srv = "decode_fp16" /\ ReplyMeans(cur, "error")
    BY <1>10 DEF DecodeFp16, ReplyMeans
  <2>2. CASE decoded' = decoded \cup {cur} /\ Reply("result", Stay("command"))
    <3>1. ReplyMeans(cur, "result")
      BY <2>2 DEF ReplyMeans
    <3>2. QED
      BY <1>2, <1>3, <2>1, <2>2, <3>1, ReplyEffects DEF Effects, ServerMessages
  <2>3. CASE Reply("error", Stay("command"))
    BY <1>2, <1>3, <2>1, <2>3, ReplyEffects DEF Effects, ServerMessages
  <2>4. QED
    BY <1>10, <2>2, <2>3 DEF DecodeFp16
<1>11. CASE ReceiveChunk \/ ReceiveDecodeStart
  <2>1. Take /\ Incoming /\ UNCHANGED <<s2c, cur, sOpen, backlog>>
    BY <1>11 DEF ReceiveChunk, ReceiveDecodeStart, Stay
  <2>2. QED
    BY <1>2, <1>3, <2>1 DEF Effects, Moves, Take, Incoming
<1>12. CASE DecodeAbkt
  <2>1. UNCHANGED <<c2s, backlog>> /\ srv = "decode_abkt" /\ ReplyMeans(cur, "error")
    BY <1>12 DEF DecodeAbkt, ReplyMeans
  <2>2. CASE decoded' = decoded \cup {cur} /\ Reply("result", Leave)
    <3>1. ReplyMeans(cur, "result")
      BY <2>2 DEF ReplyMeans
    <3>2. QED
      BY <1>2, <1>3, <2>1, <2>2, <3>1, ReplyEffects DEF Effects, ServerMessages
  <2>3. CASE Reply("error", Leave)
    BY <1>2, <1>3, <2>1, <2>3, ReplyEffects DEF Effects, ServerMessages
  <2>4. QED
    BY <1>12, <2>2, <2>3 DEF DecodeAbkt
<1>13. QED
  BY <1>4, <1>5, <1>6, <1>7, <1>8, <1>9, <1>10, <1>11, <1>12 DEF ServerStep

LEMMA ReportServer ==
  ASSUME Inv, ReportInv, ServerStep
  PROVE  ReportInv'
<1>1. CASE Accept
  <2>1. /\ cur' = Head(backlog) /\ backlog' = Tail(backlog) /\ backlog # <<>>
        /\ UNCHANGED <<turn, ppc, got, c2s, s2c, sOpen, decoded>>
    BY <1>1 DEF Accept, client
  <2>2. backlog \in Seq(Turns)
    BY DEF Inv, Shape
  <2>3. /\ Len(backlog) \in Nat \ {0} /\ cur' = backlog[1] /\ Len(backlog') = Len(backlog) - 1
        /\ \A k \in 1 .. Len(backlog) - 1 : backlog'[k] = backlog[k + 1]
    BY <2>1, <2>2
  <2>4. cur' \in sOpen' /\ \A k \in 1 .. Len(backlog') : backlog'[k] \in sOpen'
    BY <2>1, <2>3 DEF ReportInv
  <2>5. QED
    BY <2>1, <2>4 DEF ReportInv, Talking
<1>2. CASE ~Accept
  <2>1. cur \in Turns /\ cur \in sOpen /\ Effects /\ Moves /\ Shape /\ ConnInv /\ TalkInv
    BY <1>2, ServerEffects DEF Inv, ReportInv
  <2>2. (cur' \in Turns => cur' \in sOpen') /\ \A k \in 1 .. Len(backlog') : backlog'[k] \in sOpen'
    BY <2>1 DEF Moves, ReportInv, ConnInv, Turns
  <2>3. ASSUME NEW t \in Turns, Has(s2c'[t], "result") PROVE t \in decoded'
    <3>1. decoded \subseteq decoded'
      BY <2>1 DEF Effects
    <3>2. CASE s2c' = s2c
      BY <2>3, <3>1, <3>2 DEF ReportInv
    <3>3. ASSUME NEW m \in ServerMessages, ReplyMeans(cur, m),
                 s2c' = [s2c EXCEPT ![cur] = Append(@, m)]
          PROVE  t \in decoded'
      <4>1. CASE t # cur
        BY <2>1, <2>3, <3>1, <3>3, <4>1 DEF ReportInv, Shape
      <4>2. CASE t = cur
        <5>1. s2c'[t] = Append(s2c[t], m) /\ s2c[t] \in Seq(ServerMessages)
          BY <2>1, <3>3, <4>2 DEF Shape
        <5>2. Has(s2c[t], "result") \/ m = "result"
          BY <2>3, <5>1, HasFacts
        <5>3. QED
          BY <3>1, <3>3, <4>2, <5>2 DEF ReportInv, ReplyMeans
      <4>3. QED
        BY <4>1, <4>2
    <3>4. QED
      BY <2>1, <3>2, <3>3 DEF Effects
  <2>4. CASE cur # turn \/ ~Talking
    <3>1. Talking => c2s'[turn] = c2s[turn] /\ s2c'[turn] = s2c[turn]
      <4>1. Talking => turn \in Turns /\ turn # cur
        BY <2>1, <2>4 DEF Shape, Talking
      <4>2. QED
        BY <2>1, <4>1 DEF Effects, Shape
    <3>2. QED
      BY <2>1, <2>2, <2>3, <3>1 DEF Effects, ReportInv, Talking
  <2>5. CASE cur = turn /\ Talking
    <3>1. cur \in cOpen /\ turn \in sOpen /\ turn \in Turns /\ Talking'
      BY <2>1, <2>5 DEF ConnInv, Effects, Talking
    <3>2. c2s[turn] \in Seq(ClientMessages) /\ s2c[turn] \in Seq(ServerMessages)
      BY <2>1, <2>5 DEF Shape
    <3>3. c2s'[turn] = c2s[turn] \/ (c2s[turn] # <<>> /\ c2s'[turn] = Tail(c2s[turn]))
      BY <2>1, <2>5 DEF Effects, Shape
    <3>4. ASSUME NEW n, Has(c2s'[turn], n) PROVE Has(c2s[turn], n)
      <4>1. c2s[turn] # <<>> => (Has(Tail(c2s[turn]), n) => Has(c2s[turn], n))
        BY <3>2, HasFacts DEF ClientMessages
      <4>2. QED
        BY <3>3, <3>4, <4>1
    <3>5. \/ s2c'[turn] = s2c[turn]
          \/ \E m \in ServerMessages : ReplyMeans(turn, m) /\ s2c'[turn] = Append(s2c[turn], m)
      BY <2>1, <2>5 DEF Effects, Shape
    <3>6. ASSUME NEW n \in {"ack", "bye"}, Has(s2c'[turn], n), ~Has(s2c[turn], n)
          PROVE  Has(c2s[turn], IF n = "ack" THEN "run_decode" ELSE "shutdown")
      <4>1. PICK m \in ServerMessages : ReplyMeans(turn, m) /\ s2c'[turn] = Append(s2c[turn], m)
        BY <3>5, <3>6
      <4>2. m = n
        BY <3>2, <3>6, <4>1, HasFacts
      <4>3. c2s[turn] # <<>> /\ Head(c2s[turn]) = (IF n = "ack" THEN "run_decode" ELSE "shutdown")
        BY <3>6, <4>1, <4>2 DEF ReplyMeans
      <4>4. c2s[turn] # <<>> => Has(c2s[turn], Head(c2s[turn]))
        BY <3>2, HasFacts DEF ClientMessages
      <4>5. QED
        BY <4>3, <4>4
    <3>7. ppc \notin {"send_kv", "send_init"}
      BY <2>1, <2>5, <3>1 DEF TalkInv, FirstSend, Unread, Effects
    <3>8. ASSUME ppc = "await_ack" PROVE c2s'[turn] = <<>> /\ Len(s2c'[turn]) <= 1
      <4>1. \/ c2s[turn] # <<>> /\ c2s'[turn] = Tail(c2s[turn])
            \/ srv \in {"decode_fp16", "decode_abkt"}
        BY <2>1, <2>5, <3>1 DEF Effects, Shape
      <4>2. c2s[turn] = <<"run_decode">> /\ s2c[turn] = <<>> /\ srv = "command"
        BY <2>1, <2>5, <3>1, <3>8, <4>1 DEF TalkInv, AckInv, Unread, Handling
      <4>3. Len(s2c'[turn]) <= 1
        <5>1. ASSUME NEW m, s2c'[turn] = Append(<<>>, m) PROVE Len(s2c'[turn]) <= 1
          BY <5>1
        <5>2. s2c'[turn] = <<>> => Len(s2c'[turn]) <= 1
          OBVIOUS
        <5>3. QED
          BY <3>5, <4>2, <5>1, <5>2
      <4>4. c2s'[turn] = <<>>
        BY <4>1, <4>2
      <4>5. QED
        BY <4>3, <4>4
    <3>9. QED
      BY <2>1, <2>2, <2>3, <3>1, <3>4, <3>6, <3>7, <3>8 DEF Effects, ReportInv, Talking
  <2>6. QED
    BY <2>4, <2>5
<1>3. QED
  BY <1>1, <1>2

LEMMA ReportOther ==
  ASSUME ReportInv, ProbeStep \/ UNCHANGED vars
  PROVE  ReportInv'
<1>1. UNCHANGED <<turn, ppc, got, c2s, s2c, sOpen, backlog, cur, decoded>>
  BY DEF ProbeStep, ProbeIteration, ProbeEnds, vars, client, net, server
<1>2. QED
  BY <1>1 DEF ReportInv, Talking

LEMMA ReportStep == Inv /\ ReportInv /\ [Next]_vars => ReportInv'
BY ReportClient, ReportServer, ReportOther DEF Next

\* Each step is one that PDTurns allows, or changes nothing it speaks of.
LEMMA TurnsStep ==
  ASSUME Inv, ReportInv, [Next]_vars
  PROVE  [Session!Next]_(Session!vars)
<1>1. ASSUME NEW path \in {"abkt", "fp16"}, StartTurn(path) PROVE Session!Next
  <2>1. /\ ppc = "idle" /\ ppc' # "idle" /\ turn <= env.turns
        /\ UNCHANGED <<turn, decoded, outcome>>
    BY <1>1 DEF StartTurn, server
  <2>2. turn <= MaxTurns
    BY <2>1, BoundsAssumption, EnvironmentsAssumption DEF Inv, Shape, EnvironmentType, Turns
  <2>3. Session!Start
    BY <2>1, <2>2 DEF Session!Start
  <2>4. QED
    BY <2>3 DEF Session!Next
<1>2. CASE ClientStep /\ ~CloseTurn
  <2>1. ppc # "idle" /\ ppc' # "idle" /\ UNCHANGED <<turn, decoded, outcome>>
    BY <1>2 DEF ClientStep, Connect, ClientSend, SendStates, PauseProbes, SendChunk, ResumeProbes,
                Receive, Raise, PeerGone, Connecting, Sending, Awaiting, server
  <2>2. QED
    BY <2>1 DEF Session!vars
<1>3. CASE CloseTurn
  <2>1. /\ ppc = "close" /\ ppc' = "idle" /\ turn' = turn + 1 /\ decoded' = decoded
        /\ outcome' = [outcome EXCEPT ![turn] = IF got \in {"error", "exception"} THEN "error" ELSE "ok"]
    BY <1>3 DEF CloseTurn, server
  <2>2. CASE got \in {"error", "exception"}
    <3>1. Session!Answer("error")
      BY <2>1, <2>2 DEF Session!Answer
    <3>2. QED
      BY <3>1 DEF Session!Next
  <2>3. CASE got \notin {"error", "exception"}
    <3>1. turn \in decoded
      BY <2>1, <2>3 DEF ReportInv
    <3>2. Session!Answer("ok")
      BY <2>1, <2>3, <3>1 DEF Session!Answer
    <3>3. QED
      BY <3>2 DEF Session!Next
  <2>4. QED
    BY <2>2, <2>3
<1>4. CASE ServerStep /\ ~Accept
  <2>1. cur \in Turns /\ Effects
    BY <1>4, ServerEffects
  <2>2. CASE decoded' = decoded
    BY <2>1, <2>2 DEF Effects, Session!vars
  <2>3. CASE decoded' # decoded
    <3>1. cur \notin decoded /\ decoded' = decoded \cup {cur}
      BY <2>1, <2>3 DEF Effects
    <3>2. ~Untouched(cur)
      BY DEF Untouched
    <3>3. cur <= turn /\ (cur = turn => ppc # "idle")
      BY <2>1, <3>2 DEF Inv, Shape, ConnInv, Turns, Talking
    <3>4. cur \in 1 .. turn
      BY <2>1, <3>3 DEF Inv, Shape, Turns
    <3>5. Session!Decode
      BY <2>1, <3>1, <3>3, <3>4 DEF Effects, Session!Decode
    <3>6. QED
      BY <3>5 DEF Session!Next
  <2>4. QED
    BY <2>2, <2>3
<1>5. CASE Accept \/ ProbeStep \/ UNCHANGED vars
  BY <1>5 DEF Accept, ProbeStep, ProbeIteration, ProbeEnds, vars, client, server, Session!vars
<1>6. QED
  BY <1>1, <1>2, <1>3, <1>4, <1>5 DEF Next

\* A session of turns over sockets is what PDTurns says it is: turns run one
\* after the other, and whatever raises, is late or is lost on either side, a
\* turn is reported as generated only after its own cache was decoded.
THEOREM TurnsSimulation == Spec => Session!Init /\ [][Session!Next]_(Session!vars)
<1>1. Init => Inv /\ ReportInv
  BY SessionInit, ReportInit
<1>2. (Inv /\ ReportInv) /\ [Next]_vars => (Inv /\ ReportInv)'
  BY SessionStep, ReportStep
<1>3. Init => Session!Init
  BY DEF Init, Session!Init, Turns
<1>4. (Inv /\ ReportInv) /\ [Next]_vars => [Session!Next]_(Session!vars)
  BY TurnsStep
<1>5. QED
  BY <1>1, <1>2, <1>3, <1>4, PTL DEF Spec
-----------------------------------------------------------------------------
(* Types.  What has to be shown of them is that the server never holds more *)
(* chunks than a cache has: the chunks it holds for a connection and the    *)
(* position of one in flight never exceed what was sent on it.              *)
Held(t) == IF cur = t THEN chunks ELSE 0
Lead(s) == IF s # <<>> /\ s[1] = "init" THEN 1 ELSE 0
SentOn(t) == IF t = turn THEN sent ELSE NumChunks

\* n chunks were sent on a connection, held of them have been taken off it.
Bounded(s, held, n) ==
  held <= n /\ \A k \in 1 .. Len(s) : s[k] = "chunk" => k + held <= n + Lead(s)

CountInv ==
  /\ sent \in 0 .. NumChunks /\ chunks \in Nat /\ (cur = 0 => chunks = 0)
  /\ ppc \in {"connect_abkt", "connect_fp16", "send_init", "pause"} => sent = 0
  /\ ppc = "send_chunks" => sent < NumChunks
  /\ \A t \in Turns : Bounded(c2s[t], Held(t), SentOn(t))
  /\ Streaming /\ turn \in sOpen => Len(c2s[turn]) + Held(turn) <= sent + Lead(c2s[turn])

\* How the bound moves with what is in flight.
LEMMA SeqFacts ==
  ASSUME NEW s \in Seq(ClientMessages), NEW m \in ClientMessages
  PROVE  /\ Append(s, m) \in Seq(ClientMessages) /\ Len(Append(s, m)) = Len(s) + 1 /\ Len(s) \in Nat
         /\ Append(s, m)[Len(s) + 1] = m /\ \A k \in 1 .. Len(s) : Append(s, m)[k] = s[k]
         /\ s # <<>> => /\ Len(s) >= 1 /\ Head(s) = s[1]
                        /\ Tail(s) \in Seq(ClientMessages) /\ Len(Tail(s)) = Len(s) - 1
                        /\ \A k \in 1 .. Len(s) - 1 : Tail(s)[k] = s[k + 1]
OBVIOUS

LEMMA LeadFacts ==
  ASSUME NEW s \in Seq(ClientMessages), NEW m \in ClientMessages
  PROVE  /\ Lead(s) \in {0, 1} /\ Lead(Append(s, m)) \in {0, 1} /\ Lead(s) <= Lead(Append(s, m))
         /\ s # <<>> => Lead(Tail(s)) \in {0, 1} /\ (Head(s) = "chunk" => Lead(s) = 0)
<1>1. s # <<>> => Append(s, m)[1] = s[1] /\ Append(s, m) # <<>>
  BY SeqFacts
<1>2. s = <<>> => Lead(s) = 0
  BY DEF Lead
<1>3. s # <<>> => Lead(s) = Lead(Append(s, m))
  BY <1>1 DEF Lead
<1> QED
  BY <1>2, <1>3, SeqFacts DEF Lead

LEMMA BoundedAppend ==
  ASSUME NEW s \in Seq(ClientMessages), NEW m \in ClientMessages, NEW held \in Nat, NEW n \in Nat,
         Bounded(s, held, n)
  PROVE  /\ m # "chunk" => Bounded(Append(s, m), held, n)
         /\ m = "chunk" /\ Len(s) + held <= n + Lead(s) =>
              Bounded(Append(s, m), held, n + 1) /\ Len(Append(s, m)) + held <= n + 1 + Lead(Append(s, m))
<1>1. /\ Len(Append(s, m)) = Len(s) + 1 /\ Len(s) \in Nat
      /\ Append(s, m)[Len(s) + 1] = m /\ \A k \in 1 .. Len(s) : Append(s, m)[k] = s[k]
  BY SeqFacts
<1>2. Lead(s) \in {0, 1} /\ Lead(Append(s, m)) \in {0, 1} /\ Lead(s) <= Lead(Append(s, m))
  BY LeadFacts
<1>3. held <= n /\ \A k \in 1 .. Len(s) : s[k] = "chunk" => k + held <= n + Lead(s)
  BY DEF Bounded
<1>4. ASSUME NEW k \in 1 .. Len(s), Append(s, m)[k] = "chunk"
      PROVE  k + held <= n + Lead(Append(s, m))
  BY <1>1, <1>2, <1>3, <1>4
<1>5. \A k \in 1 .. Len(Append(s, m)) : k \in 1 .. Len(s) \/ k = Len(s) + 1
  BY <1>1
<1> HIDE DEF Lead
<1>6. ASSUME m # "chunk" PROVE Bounded(Append(s, m), held, n)
  BY <1>1, <1>3, <1>4, <1>5, <1>6 DEF Bounded
<1>7. ASSUME m = "chunk", Len(s) + held <= n + Lead(s)
      PROVE  Bounded(Append(s, m), held, n + 1) /\ Len(Append(s, m)) + held <= n + 1 + Lead(Append(s, m))
  <2>1. Len(s) + 1 + held <= n + 1 + Lead(Append(s, m))
    BY <1>1, <1>2, <1>7
  <2>2. \A k \in 1 .. Len(Append(s, m)) : k + held <= n + 1 + Lead(Append(s, m))
    BY <1>1, <1>2, <2>1
  <2> QED
    BY <1>1, <1>3, <2>1, <2>2 DEF Bounded
<1> QED
  BY <1>6, <1>7

LEMMA BoundedTail ==
  ASSUME NEW s \in Seq(ClientMessages), s # <<>>, NEW held \in Nat, NEW n \in Nat
  PROVE  /\ Bounded(s, held, n) => Bounded(Tail(s), held, n)
         /\ Bounded(s, held, n) /\ Head(s) = "chunk" => Bounded(Tail(s), held + 1, n)
         /\ Len(s) + held <= n + Lead(s) =>
              /\ Len(Tail(s)) + held <= n + Lead(Tail(s))
              /\ Head(s) = "chunk" => Len(Tail(s)) + (held + 1) <= n + Lead(Tail(s))
<1>1. /\ Len(s) \in Nat /\ Len(s) >= 1 /\ Head(s) = s[1] /\ Len(Tail(s)) = Len(s) - 1
      /\ \A k \in 1 .. Len(s) - 1 : Tail(s)[k] = s[k + 1] /\ k + 1 \in 1 .. Len(s)
  BY SeqFacts DEF ClientMessages
<1>2. Lead(s) \in {0, 1} /\ Lead(Tail(s)) \in {0, 1} /\ (Head(s) = "chunk" => Lead(s) = 0)
  BY LeadFacts DEF ClientMessages
<1> HIDE DEF Lead
<1>3. ASSUME Bounded(s, held, n)
      PROVE  /\ Bounded(Tail(s), held, n)
             /\ Head(s) = "chunk" => Bounded(Tail(s), held + 1, n)
  <2>1. held <= n /\ \A k \in 1 .. Len(s) : s[k] = "chunk" => k + held <= n + Lead(s)
    BY <1>3 DEF Bounded
  <2>2. ASSUME NEW k \in 1 .. Len(Tail(s)), Tail(s)[k] = "chunk"
        PROVE  k + 1 + held <= n + Lead(s)
    BY <1>1, <2>1, <2>2
  <2>3. Bounded(Tail(s), held, n)
    BY <1>1, <1>2, <2>1, <2>2 DEF Bounded
  <2>4. ASSUME Head(s) = "chunk" PROVE Bounded(Tail(s), held + 1, n)
    <3>1. Lead(s) = 0 /\ 1 + held <= n
      BY <1>1, <1>2, <2>1, <2>4
    <3> QED
      BY <1>1, <1>2, <2>2, <3>1 DEF Bounded
  <2> QED
    BY <2>3, <2>4
<1> QED
  BY <1>1, <1>2, <1>3

LEMMA BoundedPrefix ==
  ASSUME NEW s \in Seq(ClientMessages), NEW l \in 0 .. Len(s), NEW held \in Nat, NEW n \in Nat,
         Bounded(s, held, n)
  PROVE  Bounded(SubSeq(s, 1, l), held, n)
<1> DEFINE p == SubSeq(s, 1, l)
<1>1. Len(p) = l /\ Len(s) \in Nat /\ \A k \in 1 .. l : p[k] = s[k]
  OBVIOUS
<1>2. l >= 1 => p # <<>> /\ s # <<>> /\ p[1] = s[1]
  BY <1>1
<1> HIDE DEF p
<1>3. l >= 1 => Lead(p) = Lead(s)
  BY <1>2 DEF Lead
<1> QED
  BY <1>1, <1>3 DEF Bounded, p

\* The constants and the counters as numbers.
LEMMA CountTypes ==
  ASSUME Shape, CountInv
  PROVE  /\ NumChunks \in Nat /\ sent \in Nat /\ chunks \in Nat /\ sent <= NumChunks
         /\ \A t \in Turns : Held(t) \in Nat /\ SentOn(t) \in Nat /\ c2s[t] \in Seq(ClientMessages)
  BY BoundsAssumption DEF Shape, CountInv, Held, SentOn

LEMMA CountInit == Init => CountInv
<1> SUFFICES ASSUME Init PROVE CountInv
  OBVIOUS
<1>1. \A t \in Turns : c2s[t] = <<>> /\ Held(t) = 0 /\ SentOn(t) \in Nat /\ Len(c2s[t]) = 0
  BY BoundsAssumption DEF Init, Held, SentOn, Turns
<1>2. \A t \in Turns : Bounded(c2s[t], Held(t), SentOn(t))
  BY <1>1 DEF Bounded
<1> QED
  BY <1>2, BoundsAssumption DEF Init, CountInv, Streaming

\* Sends: a chunk is counted as it is sent.
LEMMA CountSend ==
  ASSUME Inv, CountInv, Talking, NEW m \in ClientMessages, ClientSends(m),
         UNCHANGED <<turn, sOpen, cur, chunks>>,
         IF m = "chunk" THEN sent' = sent + 1 /\ Streaming ELSE sent' = sent
  PROVE  /\ \A t \in Turns : Bounded(c2s[t], Held(t), SentOn(t))'
         /\ m = "chunk" /\ turn \in sOpen => Len(c2s'[turn]) + Held(turn)' <= sent' + Lead(c2s'[turn])
<1>1. Shape /\ ppc # "idle" /\ turn \in Turns
  BY DEF Inv, Shape, Talking
<1>2. /\ NumChunks \in Nat /\ sent \in Nat /\ sent <= NumChunks
      /\ \A t \in Turns : Held(t) \in Nat /\ SentOn(t) \in Nat /\ c2s[t] \in Seq(ClientMessages)
  BY <1>1, CountTypes
<1>3. \A t \in Turns : Held(t)' = Held(t)
  BY DEF Held
<1>4. ASSUME NEW t \in Turns, t # turn PROVE Bounded(c2s[t], Held(t), SentOn(t))'
  BY <1>1, <1>3, <1>4, SendFacts DEF CountInv, SentOn
<1>5. Bounded(c2s[turn], Held(turn), sent)
  BY <1>1 DEF CountInv, SentOn
<1>6. c2s'[turn] = Append(c2s[turn], m) \/ (turn \notin sOpen /\ c2s'[turn] = c2s[turn])
  BY <1>1, SendFacts DEF ClientSends
<1>7. CASE m = "chunk"
  <2>1. turn \in sOpen => Len(c2s[turn]) + Held(turn) <= sent + Lead(c2s[turn])
    BY <1>7 DEF CountInv
  <2>2. CASE turn \in sOpen
    <3>1. c2s'[turn] = Append(c2s[turn], m)
      BY <1>6, <2>2
    <3>2. /\ Bounded(Append(c2s[turn], m), Held(turn), sent + 1)
          /\ Len(Append(c2s[turn], m)) + Held(turn) <= sent + 1 + Lead(Append(c2s[turn], m))
      BY <1>1, <1>2, <1>5, <1>7, <2>1, <2>2, BoundedAppend
    <3> QED
      BY <1>1, <1>3, <1>4, <1>7, <3>1, <3>2 DEF SentOn
  <2>3. CASE turn \notin sOpen
    <3>1. c2s'[turn] = c2s[turn]
      BY <2>3, <1>1 DEF ClientSends
    <3>2. Bounded(c2s[turn], Held(turn), sent + 1)
      <4>1. Lead(c2s[turn]) \in Nat /\ Held(turn) \in Nat
        BY <1>1, <1>2 DEF Lead
      <4> QED
        BY <1>2, <1>5, <4>1 DEF Bounded
    <3> QED
      BY <1>1, <1>3, <1>4, <1>7, <2>3, <3>1, <3>2 DEF SentOn
  <2> QED
    BY <2>2, <2>3
<1>8. CASE m # "chunk"
  <2>1. Bounded(c2s'[turn], Held(turn), sent)
    <3>1. Bounded(Append(c2s[turn], m), Held(turn), sent)
      BY <1>1, <1>2, <1>5, <1>8, BoundedAppend
    <3> QED
      BY <1>5, <1>6, <3>1
  <2> QED
    BY <1>1, <1>3, <1>4, <1>8, <2>1 DEF SentOn
<1> QED
  BY <1>7, <1>8

LEMMA CountClient ==
  ASSUME Inv, CountInv, ClientStep \/ \E path \in {"abkt", "fp16"} : StartTurn(path)
  PROVE  CountInv'
<1>1. Shape /\ ConnInv
  BY DEF Inv
<1>2. /\ NumChunks \in Nat /\ sent \in Nat /\ chunks \in Nat /\ sent <= NumChunks
      /\ \A t \in Turns : Held(t) \in Nat /\ SentOn(t) \in Nat /\ c2s[t] \in Seq(ClientMessages)
  BY <1>1, CountTypes
<1>3. UNCHANGED <<cur, chunks>> /\ \A t \in Turns : Held(t)' = Held(t)
  BY DEF ClientStep, StartTurn, Connect, ClientSend, PauseProbes, SendChunk, ResumeProbes,
         Receive, Raise, CloseTurn, server, Held
<1>4. ASSUME NEW path, StartTurn(path) PROVE CountInv'
  <2>1. /\ ppc = "idle" /\ sent' = 0 /\ ppc' \in {"connect_fp16", "connect_abkt"}
        /\ UNCHANGED <<turn, c2s, sOpen>>
    BY <1>4 DEF StartTurn, net
  <2>2. ASSUME NEW t \in Turns PROVE Bounded(c2s[t], Held(t), SentOn(t))'
    <3>1. CASE t # turn
      BY <1>3, <2>1, <3>1 DEF CountInv, SentOn
    <3>2. CASE t = turn
      <4>1. c2s[t] = <<>> /\ Held(t) = 0
        BY <1>1, <2>1, <3>2 DEF ConnInv, Untouched, Talking, Held
      <4> QED
        BY <1>3, <2>1, <3>2, <4>1 DEF Bounded, SentOn
    <3> QED
      BY <3>1, <3>2
  <2> QED
    BY <1>2, <1>3, <2>1, <2>2 DEF CountInv, Streaming
<1>5. CASE Connect \/ Receive \/ Raise
  <2>1. /\ UNCHANGED <<turn, sent, c2s>>
        /\ ppc' \in {"send_kv", "send_init", "send_params", "close"}
        /\ ppc' = "send_init" => ppc \in {"connect_fp16", "connect_abkt"}
    BY <1>5 DEF Connect, Receive, Raise, net
  <2>2. \A t \in Turns : Bounded(c2s[t], Held(t), SentOn(t))'
    BY <1>3, <2>1 DEF CountInv, SentOn
  <2> QED
    BY <1>3, <2>1, <2>2 DEF CountInv, Streaming
<1>6. CASE ClientSend
  <2>1. PICK s \in SendStates : ppc = s[1] /\ ClientSends(s[2]) /\ ppc' = s[3]
    BY <1>6 DEF ClientSend
  <2>2. UNCHANGED <<turn, sent, sOpen, cur, chunks>>
    BY <1>6 DEF ClientSend, server
  <2>3. /\ s[2] \in ClientMessages /\ s[2] # "chunk" /\ Talking
        /\ ppc' \in {"await_ack", "await_result", "pause"}
        /\ ppc' = "pause" => ppc = "send_init" /\ s[2] = "init"
    BY <2>1 DEF SendStates, ClientMessages, Talking
  <2>4. \A t \in Turns : Bounded(c2s[t], Held(t), SentOn(t))'
    BY <2>1, <2>2, <2>3, CountSend
  <2>5. ASSUME ppc' = "pause", turn \in sOpen
        PROVE  Len(c2s'[turn]) + Held(turn)' <= sent + Lead(c2s'[turn])
    <3>1. ppc = "send_init" /\ turn \in Turns /\ sent = 0 /\ s[2] = "init"
      BY <1>1, <2>3, <2>5 DEF Shape, CountInv
    <3>2. c2s[turn] = <<>>
      BY <2>5, <3>1 DEF Inv, TalkInv, FirstSend
    <3>3. c2s'[turn] = <<"init">>
      BY <1>1, <2>1, <2>5, <3>1, <3>2, SendFacts DEF ClientMessages
    <3>4. Held(turn) = 0
      BY <1>2, <3>1 DEF CountInv, Bounded, SentOn
    <3>5. Lead(<<"init">>) = 1 /\ Len(<<"init">>) = 1
      BY DEF Lead
    <3>6. Held(turn)' = 0
      BY <1>3, <3>1, <3>4, <2>2
    <3> QED
      BY <3>1, <3>3, <3>5, <3>6
  <2> QED
    BY <1>2, <1>3, <2>2, <2>3, <2>4, <2>5 DEF CountInv, Streaming
<1>7. CASE SendChunk
  <2>1. /\ ppc = "send_chunks" /\ ClientSends("chunk") /\ sent' = sent + 1
        /\ ppc' = IF sent' = NumChunks THEN "resume" ELSE "send_chunks"
        /\ UNCHANGED <<turn, sOpen, cur, chunks>>
    BY <1>7 DEF SendChunk, server
  <2>2. "chunk" \in ClientMessages /\ Talking /\ Streaming
    BY <2>1 DEF ClientMessages, Talking, Streaming
  <2>3. /\ \A t \in Turns : Bounded(c2s[t], Held(t), SentOn(t))'
        /\ turn \in sOpen => Len(c2s'[turn]) + Held(turn)' <= sent' + Lead(c2s'[turn])
    BY <2>1, <2>2, CountSend
  <2>4. sent < NumChunks
    BY <2>1 DEF CountInv
  <2> QED
    BY <1>2, <1>3, <2>1, <2>3, <2>4 DEF CountInv, Streaming
<1>8. CASE PauseProbes \/ ResumeProbes
  <2>1. /\ ppc \in {"pause", "resume"} /\ UNCHANGED <<turn, sent, c2s, sOpen>>
        /\ ppc' = IF ppc = "pause" THEN "send_chunks" ELSE "send_start"
    BY <1>8 DEF PauseProbes, ResumeProbes, net
  <2>2. \A t \in Turns : Bounded(c2s[t], Held(t), SentOn(t))'
    BY <1>3, <2>1 DEF CountInv, SentOn
  <2>3. ppc' = "send_chunks" => sent < NumChunks
    BY <2>1, BoundsAssumption DEF CountInv
  <2>4. turn \in sOpen => Len(c2s'[turn]) + Held(turn)' <= sent + Lead(c2s'[turn])
    BY <1>3, <2>1 DEF CountInv, Streaming, Held
  <2> QED
    BY <1>2, <1>3, <2>1, <2>2, <2>3, <2>4 DEF CountInv, Streaming
<1>9. CASE CloseTurn
  <2>1. /\ ppc = "close" /\ ppc' = "idle" /\ turn' = turn + 1 /\ sent' = sent
        /\ turn \in Turns
    BY <1>1, <1>9 DEF CloseTurn, Shape
  <2>2. /\ c2s' \in [Turns -> Seq(ClientMessages)]
        /\ \A t \in Turns : t # turn => c2s'[t] = c2s[t]
        /\ \/ c2s'[turn] = c2s[turn]
           \/ \E all \in {c2s[turn], Append(c2s[turn], "shutdown")} : \E n \in 0 .. Len(all) :
                c2s'[turn] = SubSeq(all, 1, n)
    <3>1. Inv'
      BY <1>9, CloseTurnStep
    <3>2. UNCHANGED c2s \/ \E all \in {c2s[turn], Append(c2s[turn], "shutdown")} : \E n \in 0 .. Len(all) :
                             c2s' = [c2s EXCEPT ![turn] = SubSeq(all, 1, n)]
      BY <1>9 DEF CloseTurn
    <3> QED
      BY <1>1, <2>1, <3>1, <3>2 DEF Inv, Shape
  <2>3. Bounded(c2s[turn], Held(turn), sent)
    BY <2>1 DEF CountInv, SentOn
  <2>4. Bounded(c2s'[turn], Held(turn), sent)
    <3>1. /\ "shutdown" \in ClientMessages /\ c2s[turn] \in Seq(ClientMessages)
          /\ Append(c2s[turn], "shutdown") \in Seq(ClientMessages)
      BY <1>2, <2>1, SeqFacts DEF ClientMessages
    <3>2. Bounded(Append(c2s[turn], "shutdown"), Held(turn), sent)
      BY <1>2, <2>1, <2>3, <3>1, BoundedAppend
    <3> QED
      BY <1>2, <2>1, <2>2, <2>3, <3>1, <3>2, BoundedPrefix
  <2>5. ASSUME NEW t \in Turns PROVE Bounded(c2s[t], Held(t), SentOn(t))'
    <3>1. CASE t = turn
      <4>1. SentOn(t)' = NumChunks
        BY <2>1, <3>1 DEF SentOn, Turns
      <4>2. Bounded(c2s'[turn], Held(turn), NumChunks)
        <5>1. Lead(c2s'[turn]) \in Nat /\ Held(turn) \in Nat
          BY <1>2, <2>1 DEF Lead
        <5> QED
          BY <1>2, <2>2, <2>1, <2>4, <5>1 DEF Bounded
      <4> QED
        BY <1>3, <2>1, <3>1, <4>1, <4>2
    <3>2. CASE t = turn + 1
      <4>1. c2s[t] = <<>> /\ Held(t) = 0 /\ t > turn
        BY <1>1, <2>1, <3>2 DEF ConnInv, Untouched, Held, Turns
      <4>2. c2s'[t] = <<>> /\ Held(t)' = 0 /\ SentOn(t)' = sent
        BY <1>3, <2>1, <2>2, <3>2, <4>1 DEF SentOn, Turns
      <4> QED
        BY <1>2, <4>2 DEF Bounded
    <3>3. CASE t # turn /\ t # turn + 1
      BY <1>3, <2>1, <2>2, <3>3 DEF CountInv, SentOn
    <3> QED
      BY <3>1, <3>2, <3>3
  <2> QED
    BY <1>2, <1>3, <2>1, <2>5 DEF CountInv, Streaming
<1> QED
  BY <1>4, <1>5, <1>6, <1>7, <1>8, <1>9 DEF ClientStep

\* What a step of the server makes of its count: it is kept, a chunk is taken
\* in, or the connection is left.
CountMoves ==
  \/ cur' = 0 /\ chunks' = 0
  \/ cur' = cur /\ chunks' = chunks
  \/ cur' = cur /\ chunks' = chunks + 1 /\ c2s[cur] # <<>> /\ Head(c2s[cur]) = "chunk"
     /\ c2s' = [c2s EXCEPT ![cur] = Tail(@)]

LEMMA ServerCounts ==
  ASSUME ServerStep, ~Accept
  PROVE  CountMoves /\ UNCHANGED <<ppc, turn, sent, env>>
<1>1. UNCHANGED <<ppc, turn, sent, env>>
  BY DEF ServerStep, RunDecode, RunDecodeAbkt, UnknownOp, Shutdown, Disconnected, DecodeParams,
         DecodeFp16, ReceiveChunk, ReceiveDecodeStart, DecodeAbkt, client
<1>2. \A m : /\ Reply(m, Leave) => CountMoves
            /\ \A next : Reply(m, Stay(next)) => CountMoves
  BY DEF Reply, Leave, Stay, CountMoves
<1>3. \A next : Stay(next) => CountMoves
  BY DEF Stay, CountMoves
<1>4. Leave => CountMoves
  BY DEF Leave, CountMoves
<1>5. ReceiveChunk => CountMoves
  BY DEF ReceiveChunk, CountMoves, Incoming, Take
<1>6. Shutdown => CountMoves
  BY <1>4 DEF Shutdown, CountMoves
<1>7. RunDecode \/ RunDecodeAbkt \/ UnknownOp => CountMoves
  BY <1>2, <1>3 DEF RunDecode, RunDecodeAbkt, UnknownOp
<1>8. Disconnected \/ ReceiveDecodeStart => CountMoves
  BY <1>3, <1>4 DEF Disconnected, ReceiveDecodeStart
<1>9. DecodeParams \/ DecodeFp16 \/ DecodeAbkt => CountMoves
  BY <1>2, <1>3 DEF DecodeParams, DecodeFp16, DecodeAbkt
<1> QED
  BY <1>1, <1>5, <1>6, <1>7, <1>8, <1>9 DEF ServerStep

LEMMA CountServer ==
  ASSUME Inv, CountInv, ServerStep
  PROVE  CountInv'
<1>1. Shape
  BY DEF Inv
<1>2. /\ NumChunks \in Nat /\ sent \in Nat /\ chunks \in Nat /\ sent <= NumChunks
      /\ \A t \in Turns : Held(t) \in Nat /\ SentOn(t) \in Nat /\ c2s[t] \in Seq(ClientMessages)
  BY <1>1, CountTypes
<1>3. CASE Accept
  <2>1. /\ chunks' = 0 /\ UNCHANGED <<turn, ppc, sent, c2s, sOpen>> /\ cur = 0
    BY <1>1, <1>3 DEF Accept, client, Shape
  <2>2. \A t \in Turns : Held(t) = 0 /\ Held(t)' = 0
    BY <2>1 DEF Held, Turns
  <2>3. ppc # "idle" => turn \in Turns
    BY <1>1 DEF Shape
  <2> QED
    BY <1>2, <2>1, <2>2, <2>3 DEF CountInv, Streaming, SentOn
<1>4. CASE ~Accept
  <2>1. cur \in Turns /\ Effects /\ Moves /\ CountMoves /\ UNCHANGED <<ppc, turn, sent, env>>
    BY <1>4, ServerEffects, ServerCounts
  <2>2. PICK c \in Turns : c = cur
    BY <2>1
  <2> DEFINE s == c2s[c]
             h == Held(c)
             n == SentOn(c)
  <2>3. c2s'[c] = s \/ (s # <<>> /\ c2s'[c] = Tail(s))
    BY <1>1, <2>1, <2>2 DEF Effects, Shape
  <2>4. \A t \in Turns : t # c => c2s'[t] = c2s[t] /\ Held(t)' = Held(t)
    BY <1>1, <2>1, <2>2 DEF Effects, Shape, CountMoves, Held, Turns
  <2>5. \/ Held(c)' = 0
        \/ Held(c)' = h
        \/ Held(c)' = h + 1 /\ s # <<>> /\ Head(s) = "chunk" /\ c2s'[c] = Tail(s)
    BY <1>1, <2>1, <2>2 DEF CountMoves, Held, Turns, Shape
  <2>6. s \in Seq(ClientMessages) /\ h \in Nat /\ n \in Nat /\ Bounded(s, h, n)
    BY <1>2 DEF CountInv
  <2>7. s # <<>> => /\ Bounded(Tail(s), h, n)
                    /\ Head(s) = "chunk" => Bounded(Tail(s), h + 1, n)
    <3> HIDE DEF s, h, n
    <3> QED
      BY <2>6, BoundedTail
  <2>8. Bounded(c2s'[c], Held(c)', n)
    <3> HIDE DEF s, n
    <3>1. Lead(c2s'[c]) \in Nat
      BY DEF Lead
    <3>2. Bounded(c2s'[c], h, n)
      BY <2>3, <2>6, <2>7
    <3>3. Bounded(c2s'[c], 0, n)
      BY <2>6, <3>1, <3>2 DEF Bounded
    <3> HIDE DEF h
    <3> QED
      BY <2>5, <2>7, <3>2, <3>3
  <2>9. ASSUME NEW t \in Turns PROVE Bounded(c2s[t], Held(t), SentOn(t))'
    <3>1. SentOn(t)' = SentOn(t)
      BY <2>1 DEF SentOn
    <3>2. CASE t = c
      BY <2>8, <3>1, <3>2
    <3>3. CASE t # c
      BY <2>4, <3>1, <3>3 DEF CountInv
    <3> QED
      BY <3>2, <3>3
  <2>10. ASSUME Streaming', turn \in sOpen'
         PROVE  Len(c2s'[turn]) + Held(turn)' <= sent + Lead(c2s'[turn])
    <3>1. Streaming /\ turn \in sOpen /\ turn \in Turns /\ turn' = turn /\ sent' = sent
      BY <1>1, <2>1, <2>10 DEF Streaming, Moves, Shape
    <3>2. Len(c2s[turn]) + Held(turn) <= sent + Lead(c2s[turn])
      BY <3>1 DEF CountInv
    <3>3. CASE turn # c
      BY <2>4, <3>1, <3>2, <3>3
    <3>4. CASE turn = c
      <4>1. Len(s) + h <= sent + Lead(s)
        BY <3>2, <3>4
      <4>2. s # <<>> => /\ Len(Tail(s)) + h <= sent + Lead(Tail(s))
                        /\ Head(s) = "chunk" => Len(Tail(s)) + (h + 1) <= sent + Lead(Tail(s))
        <5> HIDE DEF s, h, n
        <5> QED
          BY <1>2, <2>6, <4>1, BoundedTail
      <4>3. s # <<>> => Tail(s) \in Seq(ClientMessages)
        BY <2>6, SeqFacts DEF ClientMessages
      <4> HIDE DEF s, h
      <4>4. c2s'[c] \in Seq(ClientMessages) /\ Len(c2s'[c]) + h <= sent + Lead(c2s'[c])
        BY <2>3, <2>6, <4>1, <4>2, <4>3
      <4>5. Len(c2s'[c]) \in Nat /\ Lead(c2s'[c]) \in Nat
        BY <4>4 DEF Lead
      <4>6. Len(c2s'[c]) + Held(c)' <= sent + Lead(c2s'[c])
        <5>1. CASE Held(c)' = 0
          BY <1>2, <2>6, <4>4, <4>5, <5>1
        <5>2. CASE Held(c)' = h
          BY <4>4, <5>2
        <5>3. CASE Held(c)' = h + 1 /\ s # <<>> /\ Head(s) = "chunk" /\ c2s'[c] = Tail(s)
          BY <4>2, <5>3
        <5> QED
          BY <2>5, <5>1, <5>2, <5>3
      <4> QED
        BY <3>1, <3>4, <4>6
    <3> QED
      BY <3>3, <3>4
  <2>11. chunks' \in Nat
    BY <1>2, <2>1 DEF CountMoves
  <2>12. Streaming' = Streaming
    BY <2>1 DEF Streaming
  <2>13. cur' = 0 => chunks' = 0
    BY <2>1 DEF CountMoves, Turns
  <2> QED
    BY <1>2, <2>1, <2>9, <2>10, <2>11, <2>12, <2>13 DEF CountInv
<1> QED
  BY <1>3, <1>4

LEMMA CountStep == Inv /\ CountInv /\ [Next]_vars => CountInv'
<1> SUFFICES ASSUME Inv, CountInv, [Next]_vars PROVE CountInv'
  OBVIOUS
<1>1. CASE ProbeStep \/ UNCHANGED vars
  <2>1. UNCHANGED <<turn, ppc, sent, c2s, sOpen, cur, chunks>>
    BY <1>1 DEF ProbeStep, ProbeIteration, ProbeEnds, vars, client, net, server
  <2> QED
    BY <2>1 DEF CountInv, Streaming, Held, SentOn
<1> QED
  BY <1>1, CountClient, CountServer DEF Next

\* The variables neither Inv nor CountInv speaks of.
TypeInv ==
  /\ turn \in 1 .. MaxTurns + 1
  /\ got \in {"none", "exception"} \cup ServerMessages
  /\ outcome \in [Turns -> {"none", "ok", "error"}]
  /\ paused \in BOOLEAN /\ probing \in BOOLEAN
  /\ decoded \subseteq Turns

LEMMA TypeClient ==
  ASSUME Inv, TypeInv, ClientStep \/ \E path \in {"abkt", "fp16"} : StartTurn(path)
  PROVE  TypeInv'
<1>1. Shape
  BY DEF Inv
<1>2. decoded' = decoded /\ probing' = probing
  BY DEF ClientStep, StartTurn, Connect, ClientSend, PauseProbes, SendChunk, ResumeProbes,
         Receive, Raise, CloseTurn, server, probe
<1>3. paused' \in {paused, TRUE, FALSE}
  BY DEF ClientStep, StartTurn, Connect, ClientSend, PauseProbes, SendChunk, ResumeProbes,
         Receive, Raise, CloseTurn, probe
<1>4. CASE CloseTurn
  <2>1. /\ turn' = turn + 1 /\ got' = got /\ turn \in Turns
        /\ \E v \in {"ok", "error"} : outcome' = [outcome EXCEPT ![turn] = v]
    BY <1>1, <1>4 DEF CloseTurn, Shape
  <2>2. outcome' \in [Turns -> {"none", "ok", "error"}]
    BY <2>1 DEF TypeInv
  <2>3. turn' \in 1 .. MaxTurns + 1
    BY <2>1, BoundsAssumption DEF Turns
  <2> QED
    BY <1>2, <1>3, <2>1, <2>2, <2>3 DEF TypeInv
<1>5. CASE Receive
  <2>1. turn \in Turns /\ s2c[turn] \in Seq(ServerMessages) /\ s2c[turn] # <<>>
    BY <1>1, <1>5 DEF Receive, Shape
  <2>2. Head(s2c[turn]) \in ServerMessages
    BY <2>1
  <2>3. turn' = turn /\ outcome' = outcome /\ got' \in {got, Head(s2c[turn])}
    BY <1>5 DEF Receive
  <2> QED
    BY <1>2, <1>3, <2>2, <2>3 DEF TypeInv
<1>6. CASE ~CloseTurn /\ ~Receive
  <2>1. turn' = turn /\ outcome' = outcome /\ got' \in {got, "none", "exception"}
    BY <1>6 DEF ClientStep, StartTurn, Connect, ClientSend, PauseProbes, SendChunk, ResumeProbes,
                Raise
  <2> QED
    BY <1>2, <1>3, <2>1 DEF TypeInv
<1> QED
  BY <1>4, <1>5, <1>6

LEMMA TypeStep == Inv /\ TypeInv /\ [Next]_vars => TypeInv'
<1> SUFFICES ASSUME Inv, TypeInv, [Next]_vars PROVE TypeInv'
  OBVIOUS
<1>1. CASE ProbeStep \/ UNCHANGED vars
  BY <1>1 DEF ProbeStep, ProbeIteration, ProbeEnds, vars, client, net, server, probe, TypeInv
<1>2. CASE ServerStep
  <2>1. UNCHANGED <<turn, got, outcome, paused, probing>>
    BY <1>2 DEF ServerStep, Accept, RunDecode, RunDecodeAbkt, UnknownOp, Shutdown, Disconnected,
       DecodeParams, DecodeFp16, ReceiveChunk, ReceiveDecodeStart, DecodeAbkt, client, probe
  <2>2. decoded' \subseteq Turns
    <3>1. CASE Accept
      BY <3>1 DEF Accept, TypeInv
    <3>2. CASE ~Accept
      BY <1>2, <3>2, ServerEffects DEF Effects, TypeInv
    <3> QED
      BY <3>1, <3>2
  <2> QED
    BY <2>1, <2>2 DEF TypeInv
<1> QED
  BY <1>1, <1>2, TypeClient DEF Next

\* The server never holds more chunks than a cache has.
LEMMA HeldWithinCache ==
  ASSUME Inv, CountInv
  PROVE  chunks \in 0 .. NumChunks
<1>1. Shape
  BY DEF Inv
<1>2. /\ NumChunks \in Nat /\ sent \in Nat /\ chunks \in Nat /\ sent <= NumChunks
  BY <1>1, CountTypes
<1>3. CASE cur \in Turns
  BY <1>2, <1>3 DEF CountInv, Bounded, Held, SentOn
<1>4. CASE cur \notin Turns
  BY <1>1, <1>2, <1>4 DEF CountInv, Shape, Turns
<1> QED
  BY <1>3, <1>4

\* Every variable of a session keeps its type, the counts within the chunks
\* of one cache among them: whatever connections are left behind half-read,
\* the chunks a server holds are those of the connection it serves.
THEOREM SessionType == Spec => []TypeOK
<1>1. Init => Inv /\ CountInv /\ TypeInv
  <2> SUFFICES ASSUME Init PROVE Inv /\ CountInv /\ TypeInv
    OBVIOUS
  <2>1. 1 \in 1 .. MaxTurns + 1
    BY BoundsAssumption
  <2>2. outcome \in [Turns -> {"none", "ok", "error"}]
    BY DEF Init
  <2>3. TypeInv
    BY <2>1, <2>2 DEF Init, TypeInv
  <2> QED
    BY <2>3, SessionInit, CountInit
<1>2. Inv /\ CountInv /\ TypeInv /\ [Next]_vars => Inv' /\ CountInv' /\ TypeInv'
  BY SessionStep, CountStep, TypeStep
<1>3. Inv /\ CountInv /\ TypeInv => TypeOK
  BY HeldWithinCache DEF Inv, Shape, CountInv, TypeInv, TypeOK, ClientStates
<1> QED
  BY <1>1, <1>2, <1>3, PTL DEF Spec

-----------------------------------------------------------------------------
(* Sessions in which nothing raises.  A connection waits, is served or has *)
(* been left; on the way from the first to the last every chunk is counted. *)
Waiting == srv = "accept" /\ cur = 0 /\ backlog = <<turn>>
Serving == srv \in {"command", "stream", "decode_abkt"} /\ cur = turn /\ backlog = <<>>
Left == srv = "accept" /\ cur = 0 /\ backlog = <<>> /\ sOpen = {}

FlowInv ==
  /\ sOpen = {turn} /\ cOpen = {turn} /\ s2c[turn] = <<>> /\ (Waiting \/ Serving)
  /\ ppc \in {"send_init", "pause"} => sent = 0
  /\ ppc = "send_chunks" => sent < NumChunks
  /\ ppc \in {"resume", "send_start", "await_result"} => sent = NumChunks
  /\ srv = "decode_abkt" => ppc = "await_result" /\ chunks = NumChunks
  /\ srv = "stream" /\ Streaming => ChunksOnly(c2s[turn]) /\ Len(c2s[turn]) + chunks = sent
  /\ srv = "stream" /\ ppc = "await_result" =>
       ChunksEnded(c2s[turn]) /\ Len(c2s[turn]) + chunks = NumChunks + 1
  /\ srv \in {"accept", "command"} =>
       /\ chunks = 0
       /\ ppc = "send_init" => c2s[turn] = <<>>
       /\ Streaming => Opened(c2s[turn]) /\ Len(c2s[turn]) = sent + 1
       /\ ppc = "await_result" => OpenedEnded(c2s[turn]) /\ Len(c2s[turn]) = NumChunks + 2

Calm ==
  /\ ppc \in {"idle", "connect_abkt", "close", "send_init", "await_result"} \/ Streaming
  /\ ppc = "close" => got = "result" /\ s2c[turn] = <<>>
  /\ ppc \in {"idle", "connect_abkt", "close"} => Left
  /\ ppc = "connect_abkt" => sent = 0
  /\ ppc = "send_init" \/ Streaming => FlowInv
  /\ ppc = "await_result" => FlowInv \/ (Left /\ s2c[turn] = <<"result">>)
  /\ paused <=> ppc \in {"send_chunks", "resume"}
  /\ \A t \in Turns : outcome[t] # "error"

CalmInv == Undisturbed => Calm

LEMMA GrowFacts ==
  ASSUME NEW s \in Seq(ClientMessages)
  PROVE  /\ Len(Append(s, "chunk")) = Len(s) + 1 /\ Len(Append(s, "decode_start")) = Len(s) + 1
         /\ Opened(s) => Opened(Append(s, "chunk")) /\ OpenedEnded(Append(s, "decode_start"))
         /\ ChunksOnly(s) => /\ ChunksOnly(Append(s, "chunk"))
                             /\ ChunksEnded(Append(s, "decode_start"))
<1>1. ASSUME NEW m \in {"chunk", "decode_start"}
      PROVE  /\ Append(s, m) # <<>> /\ Len(Append(s, m)) = Len(s) + 1 /\ Len(s) \in Nat
             /\ Append(s, m)[Len(s) + 1] = m /\ \A k \in 1 .. Len(s) : Append(s, m)[k] = s[k]
             /\ s # <<>> => Len(s) >= 1
  <2>1. m \in ClientMessages
    BY DEF ClientMessages
  <2>2. /\ Len(Append(s, m)) = Len(s) + 1 /\ Len(s) \in Nat
        /\ Append(s, m)[Len(s) + 1] = m /\ \A k \in 1 .. Len(s) : Append(s, m)[k] = s[k]
        /\ s # <<>> => Len(s) >= 1
    BY <2>1, SeqFacts
  <2>3. Append(s, m) # <<>>
    BY <2>2
  <2> QED
    BY <2>2, <2>3
<1>2. Opened(s) => Opened(Append(s, "chunk")) /\ OpenedEnded(Append(s, "decode_start"))
  BY <1>1 DEF Opened, OpenedEnded
<1>3. ChunksOnly(s) => ChunksOnly(Append(s, "chunk")) /\ ChunksEnded(Append(s, "decode_start"))
  BY <1>1 DEF ChunksOnly, ChunksEnded
<1> QED
  BY <1>1, <1>2, <1>3

LEMMA LoneEnd ==
  ASSUME NEW s \in Seq(ClientMessages), ChunksEnded(s), Head(s) = "decode_start"
  PROVE  Len(s) = 1
<1>1. s # <<>> /\ Len(s) \in Nat /\ Len(s) >= 1 /\ Head(s) = s[1]
  BY DEF ChunksEnded
<1>2. Len(s) >= 2 => s[1] = "chunk"
  BY <1>1 DEF ChunksEnded
<1>3. ~(Len(s) >= 2)
  BY <1>1, <1>2
<1>4. Len(s) \in Nat /\ Len(s) >= 1
  BY <1>1
<1>5. \A n \in Nat : n >= 1 /\ ~(n >= 2) => n = 1
  OBVIOUS
<1> QED
  BY <1>3, <1>4, <1>5

LEMMA CalmInit == Init => CalmInv
BY DEF Init, CalmInv, Calm, Left, Streaming, Turns

LEMMA CalmStart ==
  ASSUME Inv, CountInv, Undisturbed, Calm, (\E path \in {"abkt", "fp16"} : StartTurn(path)) \/ Connect
  PROVE  Calm'
<1>1. Shape /\ ConnInv
  BY DEF Inv
<1>2. CASE \E path \in {"abkt", "fp16"} : StartTurn(path)
  <2>1. /\ ppc = "idle" /\ ppc' = "connect_abkt" /\ sent' = 0
        /\ UNCHANGED <<srv, cur, backlog, sOpen, paused, outcome>>
    BY <1>2 DEF StartTurn, Undisturbed, probe, net, server
  <2> QED
    BY <2>1 DEF Calm, Left, Streaming
<1>3. CASE Connect
  <2>1. /\ ppc \in {"connect_fp16", "connect_abkt"}
        /\ cOpen' = cOpen \cup {turn} /\ sOpen' = sOpen \cup {turn}
        /\ backlog' = Append(backlog, turn)
        /\ ppc' = IF ppc = "connect_fp16" THEN "send_kv" ELSE "send_init"
        /\ UNCHANGED <<turn, sent, outcome, paused, c2s, s2c, srv, cur, chunks>>
    BY <1>3 DEF Connect, probe, server
  <2>2. ppc = "connect_abkt" /\ Left /\ sent = 0 /\ chunks = 0
    BY <2>1 DEF Calm, Left, CountInv, Streaming
  <2>3. turn \in Turns /\ c2s[turn] = <<>> /\ s2c[turn] = <<>>
    BY <1>1, <2>1 DEF Shape, ConnInv, Untouched, Talking
  <2>4. backlog' = <<turn>> /\ sOpen' = {turn} /\ cOpen' = {turn}
    <3>1. cOpen' = {turn}
      BY <1>1, <2>1 DEF Shape
    <3>2. backlog = <<>> /\ sOpen = {}
      BY <2>2 DEF Left
    <3>3. Append(<<>>, turn) = <<turn>>
      OBVIOUS
    <3> QED
      BY <2>1, <3>1, <3>2, <3>3
  <2>5. FlowInv'
    BY <2>1, <2>2, <2>3, <2>4 DEF FlowInv, Waiting, Left, Streaming
  <2> QED
    BY <2>1, <2>2, <2>5 DEF Calm, Streaming
<1> QED
  BY <1>2, <1>3

LEMMA CalmSend ==
  ASSUME Inv, CountInv, Undisturbed, Calm, ClientSend \/ SendChunk
  PROVE  Calm'
<1>1. Shape /\ ConnInv /\ TalkInv
  BY DEF Inv
<1>2. PICK m \in ClientMessages : /\ ClientSends(m)
      /\ \/ ppc = "send_init" /\ m = "init" /\ ppc' = "pause" /\ sent' = sent
         \/ /\ ppc = "send_chunks" /\ m = "chunk" /\ sent' = sent + 1
            /\ ppc' = IF sent' = NumChunks THEN "resume" ELSE "send_chunks"
         \/ ppc = "send_start" /\ m = "decode_start" /\ ppc' = "await_result" /\ sent' = sent
  BY DEF ClientSend, SendChunk, SendStates, ClientMessages, Calm, Streaming
<1>3. UNCHANGED <<turn, outcome, paused, s2c, cOpen, sOpen, backlog, srv, cur, chunks>>
  BY DEF ClientSend, SendChunk, probe, server
<1>4. FlowInv /\ ppc # "idle" /\ turn \in Turns /\ turn \in sOpen
  BY <1>1, <1>2 DEF Calm, FlowInv, Shape, Streaming
<1> DEFINE s == c2s[turn]
<1>5. s \in Seq(ClientMessages) /\ c2s'[turn] = Append(s, m)
  BY <1>1, <1>2, <1>4, SendFacts
<1>6. NumChunks \in Nat /\ sent \in Nat /\ chunks \in Nat /\ Len(s) \in Nat
  BY <1>1, <1>5, CountTypes
<1>7. /\ Len(Append(s, "chunk")) = Len(s) + 1 /\ Len(Append(s, "decode_start")) = Len(s) + 1
      /\ Opened(s) => Opened(Append(s, "chunk")) /\ OpenedEnded(Append(s, "decode_start"))
      /\ ChunksOnly(s) => ChunksOnly(Append(s, "chunk")) /\ ChunksEnded(Append(s, "decode_start"))
  BY <1>5, GrowFacts
<1>8. CASE ppc = "send_init"
  <2>1. srv \in {"accept", "command"} /\ s = <<>> /\ sent = 0 /\ chunks = 0
    BY <1>1, <1>4, <1>8 DEF FlowInv, Waiting, Serving, TalkInv, FirstSend, Unread
  <2>2. c2s'[turn] = <<"init">> /\ Opened(<<"init">>) /\ Len(<<"init">>) = 1
    BY <1>2, <1>5, <1>8, <2>1 DEF Opened
  <2>3. FlowInv'
    BY <1>2, <1>3, <1>4, <1>8, <2>1, <2>2 DEF FlowInv, Waiting, Serving, Streaming
  <2> QED
    BY <1>2, <1>3, <1>8, <2>3 DEF Calm, Streaming
<1>9. CASE ppc = "send_chunks"
  <2>1. sent < NumChunks /\ sent' = sent + 1 /\ c2s'[turn] = Append(s, "chunk") /\ srv # "decode_abkt"
    BY <1>2, <1>4, <1>5, <1>9 DEF FlowInv
  <2>2. /\ ppc' \in {"send_chunks", "resume"}
        /\ ppc' = "send_chunks" => sent' < NumChunks
        /\ ppc' = "resume" => sent' = NumChunks
    BY <1>2, <1>6, <1>9, <2>1
  <2>3. Streaming /\ Streaming'
    BY <1>9, <2>2 DEF Streaming
  <2>4. srv = "stream" => ChunksOnly(c2s'[turn]) /\ Len(c2s'[turn]) + chunks = sent'
    <3>1. srv = "stream" => ChunksOnly(s) /\ Len(s) + chunks = sent
      BY <1>4, <2>3 DEF FlowInv
    <3> QED
      BY <1>6, <1>7, <2>1, <3>1
  <2>5. srv \in {"accept", "command"} =>
          chunks = 0 /\ Opened(c2s'[turn]) /\ Len(c2s'[turn]) = sent' + 1
    BY <1>4, <1>6, <1>7, <2>1, <2>3 DEF FlowInv
  <2>6. FlowInv'
    BY <1>3, <1>4, <2>1, <2>2, <2>4, <2>5 DEF FlowInv, Waiting, Serving
  <2> QED
    BY <1>2, <1>3, <1>9, <2>2, <2>3, <2>6 DEF Calm
<1>10. CASE ppc = "send_start"
  <2>1. /\ sent = NumChunks /\ sent' = sent /\ c2s'[turn] = Append(s, "decode_start")
        /\ srv # "decode_abkt" /\ ppc' = "await_result"
    BY <1>2, <1>4, <1>5, <1>10 DEF FlowInv
  <2>2. Streaming /\ ~Streaming'
    BY <1>10, <2>1 DEF Streaming
  <2>3. srv = "stream" => ChunksEnded(c2s'[turn]) /\ Len(c2s'[turn]) + chunks = NumChunks + 1
    BY <1>4, <1>6, <1>7, <2>1, <2>2 DEF FlowInv
  <2>4. srv \in {"accept", "command"} =>
          chunks = 0 /\ OpenedEnded(c2s'[turn]) /\ Len(c2s'[turn]) = NumChunks + 2
    BY <1>4, <1>6, <1>7, <2>1, <2>2 DEF FlowInv
  <2>5. FlowInv'
    BY <1>3, <1>4, <2>1, <2>2, <2>3, <2>4 DEF FlowInv, Waiting, Serving
  <2> QED
    BY <1>2, <1>3, <1>10, <2>1, <2>2, <2>5 DEF Calm
<1> QED
  BY <1>2, <1>8, <1>9, <1>10

LEMMA CalmClient ==
  ASSUME Inv, CountInv, Undisturbed, Calm,
         PauseProbes \/ ResumeProbes \/ Receive \/ Raise \/ CloseTurn
  PROVE  Calm'
<1>1. Shape /\ ConnInv
  BY DEF Inv
<1>2. NumChunks \in Nat \ {0}
  BY BoundsAssumption
<1>3. CASE PauseProbes \/ ResumeProbes
  <2>1. /\ ppc \in {"pause", "resume"} /\ paused' = (ppc = "pause")
        /\ ppc' = IF ppc = "pause" THEN "send_chunks" ELSE "send_start"
        /\ UNCHANGED <<turn, sent, outcome, c2s, s2c, cOpen, sOpen, backlog, srv, cur, chunks>>
    BY <1>3 DEF PauseProbes, ResumeProbes, net, server
  <2>2. Streaming /\ Streaming' /\ FlowInv
    BY <2>1 DEF Calm, Streaming
  <2>3. FlowInv'
    BY <1>2, <2>1, <2>2 DEF FlowInv, Waiting, Serving
  <2> QED
    BY <2>1, <2>2, <2>3 DEF Calm
<1>4. CASE Receive
  <2>1. /\ ppc \in {"await_ack", "await_result"} /\ s2c[turn] # <<>>
        /\ s2c' = [s2c EXCEPT ![turn] = Tail(@)]
        /\ ppc = "await_result" => ppc' = "close" /\ got' = Head(s2c[turn])
        /\ UNCHANGED <<turn, outcome, paused, sOpen, backlog, srv, cur>>
    BY <1>4 DEF Receive, probe, server
  <2>2. ppc = "await_result" /\ Left /\ s2c[turn] = <<"result">> /\ turn \in Turns /\ ~paused
    BY <1>1, <2>1 DEF Calm, FlowInv, Streaming, Shape
  <2>3. s2c'[turn] = <<>> /\ got' = "result"
    BY <1>1, <2>1, <2>2 DEF Shape
  <2> QED
    BY <2>1, <2>2, <2>3 DEF Calm, Left, Streaming
<1>5. CASE Raise
  <2>1. PeerGone
    BY <1>5 DEF Raise, Undisturbed
  <2>2. ~(Connecting /\ srv = "down")
    BY DEF Calm, Connecting, Left, Streaming
  <2>3. ~(Sending /\ turn \notin sOpen)
    BY DEF Calm, Sending, SendStates, FlowInv, Streaming
  <2>4. ~(Awaiting /\ turn \notin sOpen /\ s2c[turn] = <<>>)
    <3>1. <<"result">> # <<>>
      OBVIOUS
    <3> QED
      BY <3>1 DEF Calm, Awaiting, FlowInv, Streaming
  <2> QED
    BY <2>1, <2>2, <2>3, <2>4 DEF PeerGone
<1>6. CASE CloseTurn
  <2>1. /\ ppc = "close" /\ ppc' = "idle" /\ turn \in Turns
        /\ UNCHANGED <<paused, sOpen, backlog, srv, cur>>
        /\ outcome' = [outcome EXCEPT ![turn] =
                         IF got \in {"error", "exception"} THEN "error" ELSE "ok"]
    BY <1>1, <1>6 DEF CloseTurn, Shape, probe, server
  <2>2. got = "result" /\ Left /\ ~paused /\ \A t \in Turns : outcome[t] # "error"
    BY <2>1 DEF Calm
  <2>3. \A t \in Turns : outcome'[t] # "error"
    <3>1. outcome' = [outcome EXCEPT ![turn] = "ok"]
      BY <2>1, <2>2
    <3> QED
      BY <2>2, <3>1
  <2> QED
    BY <2>1, <2>2, <2>3 DEF Calm, Left, Streaming
<1> QED
  BY <1>3, <1>4, <1>5, <1>6

LEMMA CalmServer ==
  ASSUME Inv, CountInv, Undisturbed, Calm, ServerStep
  PROVE  Calm'
<1>1. Shape /\ ConnInv /\ TalkInv
  BY DEF Inv
<1>2. /\ NumChunks \in Nat \ {0} /\ chunks \in Nat
      /\ \A t \in Turns : c2s[t] \in Seq(ClientMessages)
  BY <1>1, CountTypes, BoundsAssumption
<1>3. UNCHANGED <<ppc, turn, sent, got, outcome, paused, cOpen>>
  BY DEF ServerStep, Accept, RunDecode, RunDecodeAbkt, UnknownOp, Shutdown, Disconnected,
     DecodeParams, DecodeFp16, ReceiveChunk, ReceiveDecodeStart, DecodeAbkt, client, probe
<1>4. ~Left
  <2>1. Left => ~ServerStep
    BY DEF ServerStep, Accept, RunDecode, RunDecodeAbkt, UnknownOp, Shutdown, Disconnected,
       DecodeParams, DecodeFp16, ReceiveChunk, ReceiveDecodeStart, DecodeAbkt, Left
  <2> QED
    BY <2>1
<1>5. FlowInv /\ (ppc \in {"send_init", "await_result"} \/ Streaming)
  BY <1>4 DEF Calm
<1>6. turn \in Turns /\ Talking
  BY <1>1, <1>5 DEF Shape, Talking, Streaming
<1> DEFINE s == c2s[turn]
<1>7. ASSUME FlowInv' \/ (ppc = "await_result" /\ Left' /\ s2c'[turn] = <<"result">>) PROVE Calm'
  BY <1>3, <1>5, <1>7 DEF Calm, Streaming
<1>8. CASE Accept
  <2>1. /\ srv = "accept" /\ srv' = "command" /\ chunks' = 0
        /\ cur' = Head(backlog) /\ backlog' = Tail(backlog)
        /\ UNCHANGED <<c2s, s2c, sOpen>>
    BY <1>8 DEF Accept
  <2>2. backlog = <<turn>>
    BY <1>5, <2>1 DEF FlowInv, Waiting, Serving
  <2>3. cur' = turn /\ backlog' = <<>>
    BY <2>1, <2>2
  <2>4. FlowInv'
    BY <1>3, <1>5, <2>1, <2>3 DEF FlowInv, Serving, Streaming
  <2> QED
    BY <1>7, <2>4
<1>9. CASE ~Accept
  <2>1. cur \in Turns
    BY <1>9, ServerEffects
  <2>2. Serving /\ cur = turn /\ cur \in cOpen
    <3>1. Serving /\ cOpen = {turn}
      BY <1>5, <2>1 DEF FlowInv, Waiting, Turns
    <3> QED
      BY <3>1 DEF Serving
  <2>3. s # <<>> => /\ Len(Tail(s)) = Len(s) - 1 /\ Len(s) \in Nat
                    /\ Opened(s) => Head(s) = "init" /\ ChunksOnly(Tail(s))
                    /\ ChunksOnly(s) => Head(s) = "chunk" /\ ChunksOnly(Tail(s))
                    /\ OpenedEnded(s) => Head(s) = "init" /\ ChunksEnded(Tail(s))
                    /\ ChunksEnded(s) /\ Head(s) # "decode_start" => ChunksEnded(Tail(s))
    BY <1>2, <1>6, SeqFacts, HeadFacts
  <2>4. srv = "command" /\ s # <<>> => Head(s) = "init" /\ ppc # "send_init"
    BY <1>5, <2>3 DEF FlowInv
  <2>5. ~(Shutdown \/ UnknownOp \/ RunDecode \/ Disconnected \/ DecodeParams \/ DecodeFp16)
    BY <2>2, <2>4 DEF Shutdown, UnknownOp, RunDecode, Disconnected, DecodeParams, DecodeFp16,
       Serving, Incoming, EndOfFile
  <2>6. CASE RunDecodeAbkt
    <3>1. /\ srv = "command" /\ s # <<>> /\ c2s' = [c2s EXCEPT ![turn] = Tail(@)]
          /\ srv' = "stream" /\ UNCHANGED <<s2c, sOpen, backlog, cur, chunks>>
      BY <2>2, <2>6 DEF RunDecodeAbkt, Undisturbed, Incoming, Take, Stay
    <3>2. c2s'[turn] = Tail(s)
      BY <1>1, <1>6, <3>1 DEF Shape
    <3>3. Streaming => ChunksOnly(c2s'[turn]) /\ Len(c2s'[turn]) + chunks = sent
      BY <1>2, <1>5, <2>3, <3>1, <3>2 DEF FlowInv, CountInv
    <3>4. ppc = "await_result" => ChunksEnded(c2s'[turn]) /\ Len(c2s'[turn]) + chunks = NumChunks + 1
      <4>1. ppc = "await_result" => chunks = 0 /\ OpenedEnded(s) /\ Len(s) = NumChunks + 2
        BY <1>5, <3>1 DEF FlowInv
      <4>2. ppc = "await_result" => ChunksEnded(c2s'[turn])
        BY <2>3, <3>1, <3>2, <4>1
      <4>3. Len(c2s'[turn]) = Len(s) - 1 /\ Len(s) \in Nat
        BY <2>3, <3>1, <3>2
      <4> QED
        BY <1>2, <4>1, <4>2, <4>3
    <3>5. FlowInv'
      BY <1>3, <1>5, <2>2, <3>1, <3>3, <3>4 DEF FlowInv, Serving, Streaming
    <3> QED
      BY <1>7, <3>5
  <2>7. CASE ReceiveChunk
    <3>1. /\ srv = "stream" /\ s # <<>> /\ Head(s) # "decode_start"
          /\ c2s' = [c2s EXCEPT ![turn] = Tail(@)]
          /\ chunks' = IF Head(s) = "chunk" THEN chunks + 1 ELSE chunks
          /\ UNCHANGED <<s2c, sOpen, backlog, cur, srv>>
      BY <2>2, <2>7 DEF ReceiveChunk, Incoming, Take
    <3>2. c2s'[turn] = Tail(s)
      BY <1>1, <1>6, <3>1 DEF Shape
    <3>3. Streaming => ChunksOnly(c2s'[turn]) /\ Len(c2s'[turn]) + chunks' = sent
      <4>1. Streaming => ChunksOnly(s) /\ Len(s) + chunks = sent
        BY <1>5, <3>1 DEF FlowInv
      <4>2. sent \in Nat
        BY <1>1, CountTypes
      <4>3. Streaming => ChunksOnly(c2s'[turn]) /\ Head(s) = "chunk"
        BY <2>3, <3>1, <3>2, <4>1
      <4>4. Len(c2s'[turn]) = Len(s) - 1 /\ Len(s) \in Nat
        BY <2>3, <3>1, <3>2
      <4>5. Streaming => chunks' = chunks + 1
        BY <3>1, <4>3
      <4> QED
        BY <1>2, <4>1, <4>2, <4>3, <4>4, <4>5
    <3>4. ppc = "await_result" =>
            ChunksEnded(c2s'[turn]) /\ Len(c2s'[turn]) + chunks' = NumChunks + 1
      <4> SUFFICES ASSUME ppc = "await_result"
                   PROVE  ChunksEnded(c2s'[turn]) /\ Len(c2s'[turn]) + chunks' = NumChunks + 1
        OBVIOUS
      <4>1. ChunksEnded(s) /\ Len(s) + chunks = NumChunks + 1
        BY <1>5, <3>1 DEF FlowInv
      <4>2. Len(s) \in Nat /\ Len(s) >= 1 /\ Head(s) = s[1]
        BY <1>2, <1>6, <3>1, SeqFacts
      <4>3. Head(s) = "chunk"
        BY <3>1, <4>1, <4>2 DEF ChunksEnded
      <4>4. ChunksEnded(c2s'[turn]) /\ Len(c2s'[turn]) = Len(s) - 1
        BY <2>3, <3>1, <3>2, <4>1
      <4>5. chunks' = chunks + 1
        BY <3>1, <4>3
      <4>6. Len(s) \in Nat /\ Len(s) + chunks = NumChunks + 1
        BY <4>1, <4>2
      <4>7. Len(c2s'[turn]) = Len(s) - 1 /\ chunks \in Nat
        BY <1>2, <4>4
      <4>8. \A l, h \in Nat : (l - 1) + (h + 1) = l + h
        OBVIOUS
      <4>9. Len(c2s'[turn]) + chunks' = NumChunks + 1
        BY <4>5, <4>6, <4>7, <4>8
      <4> QED
        BY <4>4, <4>9
    <3>5. ppc # "send_init"
      BY <1>1, <2>2, <3>1, <1>5 DEF TalkInv, FirstSend, Unread, FlowInv
    <3>6. FlowInv'
      BY <1>3, <1>5, <2>2, <3>1, <3>3, <3>4, <3>5 DEF FlowInv, Serving, Streaming
    <3> QED
      BY <1>7, <3>6
  <2>8. CASE ReceiveDecodeStart
    <3>1. /\ srv = "stream" /\ s # <<>> /\ Head(s) = "decode_start" /\ srv' = "decode_abkt"
          /\ UNCHANGED <<s2c, sOpen, backlog, cur, chunks>>
      BY <2>2, <2>8 DEF ReceiveDecodeStart, Incoming, Take, Stay
    <3>2. ppc # "send_init"
      BY <1>1, <2>2, <3>1, <1>5 DEF TalkInv, FirstSend, Unread, FlowInv
    <3>3. ~Streaming
      BY <1>5, <2>3, <3>1 DEF FlowInv
    <3>4. ppc = "await_result" /\ ChunksEnded(s) /\ Len(s) + chunks = NumChunks + 1
      BY <1>5, <3>1, <3>2, <3>3 DEF FlowInv
    <3>5. chunks = NumChunks
      <4>1. Len(s) \in Nat /\ Len(s) >= 1 /\ Head(s) = s[1]
        BY <1>2, <1>6, <3>1, SeqFacts
      <4>2. Len(s) = 1
        BY <1>2, <1>6, <3>1, <3>4, LoneEnd
      <4> QED
        BY <1>2, <3>4, <4>2
    <3>6. FlowInv'
      BY <1>3, <1>5, <2>2, <3>1, <3>4, <3>5 DEF FlowInv, Serving, Streaming
    <3> QED
      BY <1>7, <3>6
  <2>9. CASE DecodeAbkt
    <3>1. srv = "decode_abkt" /\ ppc = "await_result" /\ chunks = NumChunks
      BY <1>5, <2>9 DEF DecodeAbkt, FlowInv
    <3>2. Reply("result", Leave) /\ backlog' = backlog
      BY <2>9, <3>1 DEF DecodeAbkt, Undisturbed
    <3>3. s2c' = [s2c EXCEPT ![turn] = Append(@, "result")] /\ Leave
      BY <2>2, <3>2 DEF Reply
    <3>4. s2c[turn] = <<>> /\ backlog = <<>> /\ sOpen = {turn}
      BY <1>5, <2>2 DEF FlowInv, Serving
    <3>5. s2c'[turn] = <<"result">>
      BY <1>1, <1>6, <3>3, <3>4 DEF Shape
    <3>6. Left'
      BY <2>2, <3>2, <3>3, <3>4 DEF Leave, Left
    <3> QED
      BY <1>7, <3>1, <3>5, <3>6
  <2> QED
    BY <1>9, <2>5, <2>6, <2>7, <2>8, <2>9 DEF ServerStep
<1> QED
  BY <1>8, <1>9

LEMMA CalmStep == Inv /\ CountInv /\ CalmInv /\ [Next]_vars => CalmInv'
<1> SUFFICES ASSUME Inv, CountInv, CalmInv, [Next]_vars, Undisturbed' PROVE Calm'
  BY DEF CalmInv
<1>1. env' = env
  BY DEF Next, ClientStep, ServerStep, ProbeStep, StartTurn, Connect, ClientSend, PauseProbes,
     SendChunk, ResumeProbes, Receive, Raise, CloseTurn, ProbeIteration, ProbeEnds, Accept,
     RunDecode, RunDecodeAbkt, UnknownOp, Shutdown, Disconnected, DecodeParams, DecodeFp16,
     ReceiveChunk, ReceiveDecodeStart, DecodeAbkt, vars
<1>2. Undisturbed /\ Calm
  BY <1>1 DEF Undisturbed, CalmInv
<1>3. CASE ProbeStep \/ UNCHANGED vars
  <2>1. UNCHANGED <<client, paused, net, server>>
    BY <1>3 DEF ProbeStep, ProbeIteration, ProbeEnds, vars, probe
  <2> QED
    BY <1>2, <2>1 DEF Calm, FlowInv, Left, Waiting, Serving, Streaming, client, net, server
<1> QED
  BY <1>2, <1>3, CalmStart, CalmSend, CalmClient, CalmServer DEF Next, ClientStep

LEMMA CalmAlways == Spec => [](Inv /\ CalmInv)
<1>1. Inv /\ CountInv /\ CalmInv /\ [Next]_vars => Inv' /\ CountInv' /\ CalmInv'
  BY SessionStep, CountStep, CalmStep
<1>2. Init => Inv /\ CountInv /\ CalmInv
  BY SessionInit, CountInit, CalmInit
<1> QED
  BY <1>1, <1>2, PTL DEF Spec

\* When every turn takes the ABKT path and nothing raises, each turn is
\* served and the server goes on listening, for any number of turns and
\* chunks: no client's farewell is ever read as the command that stops the
\* server, and no turn finds it busy with the remains of another.
THEOREM EveryTurnServed == Spec => []AllTurnsServed
<1>1. Inv /\ CalmInv => AllTurnsServed
  BY DEF Inv, CalmInv, Calm, AllTurnsServed, ServerKeepsListening, FlowInv, Left, Waiting, Serving
<1> QED
  BY <1>1, CalmAlways, PTL

\* In the same sessions the pause that a transfer asks of the bandwidth
\* probes is over when the turn is.
THEOREM ProbesResumeWithTurn == Spec => []AbktProbesResumed
<1>1. CalmInv => AbktProbesResumed
  BY DEF CalmInv, Calm, AbktProbesResumed, ProbesResumed
<1> QED
  BY <1>1, CalmAlways, PTL
=============================================================================
