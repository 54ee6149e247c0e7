----------------------------- MODULE PDSession -----------------------------
(***************************************************************************)
(* A session of turns: run_prefill_turn with its SocketClient on the       *)
(* prefill node, SocketServer with the run_decode and run_decode_abkt      *)
(* handlers on the decode node, and the probe thread that is paused while  *)
(* chunks are sent.  Every turn opens a connection of its own; the server  *)
(* serves one connection at a time and keeps the others in its backlog.    *)
(*                                                                         *)
(* A message is its kind; the chunks of a cache are counted (what is in    *)
(* them is the business of KVTransport).  Decoding is one step.            *)
(***************************************************************************)
EXTENDS Naturals, Sequences, FiniteSets

CONSTANTS
  MaxTurns,        \* bound: turns of the session
  NumChunks,       \* chunks of a cache
  Environments     \* the circumstances a session may meet, see EnvironmentType

ASSUME BoundsAssumption == MaxTurns \in Nat \ {0} /\ NumChunks \in Nat \ {0}
Turns == 1 .. MaxTurns

\* The paths the allocator may decide on, the turns the user asks for, and
\* whether a step of the client (timeout, interrupt, ...) or a handler of
\* the decode node may raise.
EnvironmentType == [paths: SUBSET {"abkt", "fp16"}, turns: Turns,
                    clientMayRaise: BOOLEAN, handlerMayRaise: BOOLEAN]
ASSUME EnvironmentsAssumption == Environments \subseteq EnvironmentType

VARIABLES
  env,      \* the circumstances of this session
  turn,     \* the turn in progress, or the next one
  ppc,      \* where run_prefill_turn is
  sent,     \* chunks sent in this turn
  got,      \* the message run_prefill_turn returns
  outcome,  \* what each finished turn returned to its caller
  paused,   \* NetworkProbeClient._bw_probes_paused
  probing,  \* a bandwidth probe is on the wire
  c2s, s2c, \* messages in flight on the connection of each turn
  cOpen,    \* turns whose connection the client holds open
  sOpen,    \* turns whose connection the server side holds open
  backlog,  \* connections not yet accepted
  srv,      \* where the server thread is
  cur,      \* the turn whose connection it serves
  chunks,   \* chunks the assembler of that connection holds
  decoded   \* turns whose cache was decoded

client == <<turn, ppc, sent, got, outcome>>
probe == <<paused, probing>>
net == <<c2s, s2c, cOpen, sOpen, backlog>>
server == <<srv, cur, chunks, decoded>>
vars == <<env, client, probe, net, server>>

ClientMessages == {"run_decode", "params", "init", "chunk", "decode_start", "shutdown"}
ServerMessages == {"ack", "result", "error", "bye"}

Init ==
  /\ env \in Environments
  /\ turn = 1 /\ ppc = "idle" /\ sent = 0 /\ got = "none"
  /\ outcome = [t \in Turns |-> "none"]
  /\ paused = FALSE /\ probing = FALSE
  /\ c2s = [t \in Turns |-> <<>>] /\ s2c = [t \in Turns |-> <<>>]
  /\ cOpen = {} /\ sOpen = {} /\ backlog = <<>>
  /\ srv = "accept" /\ cur = 0 /\ chunks = 0 /\ decoded = {}
-----------------------------------------------------------------------------
(* The prefill node. *)

\* send_obj on the client's socket.  Once the server side is closed the
\* kernel may still take the bytes, and drops them.
ClientSends(m) ==
  c2s' = IF turn \in sOpen THEN [c2s EXCEPT ![turn] = Append(@, m)] ELSE c2s

StartTurn(path) ==
  /\ ppc = "idle" /\ turn <= env.turns /\ path \in env.paths
  /\ ppc' = IF path = "fp16" THEN "connect_fp16" ELSE "connect_abkt"
  /\ sent' = 0 /\ got' = "none"
  /\ UNCHANGED <<env, turn, outcome, probe, net, server>>

\* The kernel completes the connection; accept comes later.
Connect ==
  /\ ppc \in {"connect_fp16", "connect_abkt"}
  /\ srv # "down"
  /\ cOpen' = cOpen \cup {turn} /\ sOpen' = sOpen \cup {turn}
  /\ backlog' = Append(backlog, turn)
  /\ ppc' = IF ppc = "connect_fp16" THEN "send_kv" ELSE "send_init"
  /\ UNCHANGED <<env, turn, sent, got, outcome, probe, c2s, s2c, server>>

\* Sends of the two paths: state, message, next state.
SendStates == {<<"send_kv", "run_decode", "await_ack">>,
               <<"send_params", "params", "await_result">>,
               <<"send_init", "init", "pause">>,
               <<"send_start", "decode_start", "await_result">>}

ClientSend ==
  /\ \E s \in SendStates : ppc = s[1] /\ ClientSends(s[2]) /\ ppc' = s[3]
  /\ UNCHANGED <<env, turn, sent, got, outcome, probe, s2c, cOpen, sOpen, backlog, server>>

PauseProbes ==
  /\ ppc = "pause"
  /\ paused' = TRUE
  /\ ppc' = "send_chunks"
  /\ UNCHANGED <<env, turn, sent, got, outcome, probing, net, server>>

\* Mutant: the loop over the chunks ends one chunk early.
SendChunkShort ==
  /\ ppc = "send_chunks"
  /\ ClientSends("chunk")
  /\ sent' = sent + 1
  /\ ppc' = IF sent' >= NumChunks - 1 THEN "resume" ELSE "send_chunks"
  /\ UNCHANGED <<env, turn, got, outcome, probe, s2c, cOpen, sOpen, backlog, server>>

SendChunk ==
  /\ ppc = "send_chunks"
  /\ ClientSends("chunk")
  /\ sent' = sent + 1
  /\ ppc' = IF sent' = NumChunks THEN "resume" ELSE "send_chunks"
  /\ UNCHANGED <<env, turn, got, outcome, probe, s2c, cOpen, sOpen, backlog, server>>

\* Mutant: the resume is skipped.
ResumeForgotten ==
  /\ ppc = "resume"
  /\ ppc' = "send_start"
  /\ UNCHANGED <<env, turn, sent, got, outcome, probe, net, server>>

ResumeProbes ==
  /\ ppc = "resume"
  /\ paused' = FALSE
  /\ ppc' = "send_start"
  /\ UNCHANGED <<env, turn, sent, got, outcome, probing, net, server>>

\* Mutant: the first message is the result; no acknowledgement is awaited.
ReceiveOnce ==
  /\ ppc \in {"await_ack", "await_result"}
  /\ s2c[turn] # <<>>
  /\ s2c' = [s2c EXCEPT ![turn] = Tail(@)]
  /\ got' = Head(s2c[turn]) /\ ppc' = "close"
  /\ UNCHANGED <<env, turn, sent, outcome, probe, c2s, cOpen, sOpen, backlog, server>>

\* recv_obj: neither the acknowledgement nor the result is looked at here.
Receive ==
  /\ ppc \in {"await_ack", "await_result"}
  /\ s2c[turn] # <<>>
  /\ s2c' = [s2c EXCEPT ![turn] = Tail(@)]
  /\ IF ppc = "await_ack" THEN ppc' = "send_params" /\ UNCHANGED got
                          ELSE ppc' = "close" /\ got' = Head(s2c[turn])
  /\ UNCHANGED <<env, turn, sent, outcome, probe, c2s, cOpen, sOpen, backlog, server>>

Connecting == ppc \in {"connect_fp16", "connect_abkt"}
Sending == ppc \in {"send_chunks"} \cup {s[1] : s \in SendStates}
Awaiting == ppc \in {"await_ack", "await_result"}

\* connect is refused, a send meets a closed connection, a receive its end.
PeerGone ==
  \/ Connecting /\ srv = "down"
  \/ Sending /\ turn \notin sOpen
  \/ Awaiting /\ turn \notin sOpen /\ s2c[turn] = <<>>

\* except Exception: the turn returns an error.
Raise ==
  /\ \/ PeerGone
     \/ env.clientMayRaise /\ (Connecting \/ Sending \/ Awaiting \/ ppc \in {"pause", "resume"})
  /\ got' = "exception"
  /\ ppc' = "close"
  /\ UNCHANGED <<env, turn, sent, outcome, probe, net, server>>

\* Mutant: the socket is left open after the shutdown message.
CloseTurnLeak ==
  /\ ppc = "close"
  /\ c2s' = IF turn \in sOpen THEN [c2s EXCEPT ![turn] = Append(@, "shutdown")] ELSE c2s
  /\ outcome' = [outcome EXCEPT ![turn] =
                   IF got \in {"error", "exception"} THEN "error" ELSE "ok"]
  /\ turn' = turn + 1
  /\ ppc' = "idle"
  /\ UNCHANGED <<env, sent, got, probe, s2c, cOpen, sOpen, backlog, server>>

\* The finally clause: client.close() sends a shutdown message and closes.
\* Closing with unread replies resets the connection, and the server may
\* lose what it has not read.
CloseTurn ==
  /\ ppc = "close"
  /\ IF turn \in cOpen
     THEN LET all == IF turn \in sOpen THEN Append(c2s[turn], "shutdown")
                                       ELSE c2s[turn]
          IN \E n \in 0 .. Len(all) :
               /\ n = Len(all) \/ s2c[turn] # <<>>
               /\ c2s' = [c2s EXCEPT ![turn] = SubSeq(all, 1, n)]
     ELSE UNCHANGED c2s
  /\ cOpen' = cOpen \ {turn}
  /\ outcome' = [outcome EXCEPT ![turn] =
                   IF got \in {"error", "exception"} THEN "error" ELSE "ok"]
  /\ turn' = turn + 1
  /\ ppc' = "idle"
  /\ UNCHANGED <<env, sent, got, probe, s2c, sOpen, backlog, server>>
-----------------------------------------------------------------------------
(* The probe thread: the flag is read, then the probe runs.  In the other  *)
(* iterations it measures the round trip, which leaves this state alone.   *)

ProbeIteration ==
  /\ ~probing
  /\ probing' \in IF paused THEN {FALSE} ELSE {TRUE, FALSE}
  /\ UNCHANGED <<env, client, paused, net, server>>

ProbeEnds ==
  /\ probing
  /\ probing' = FALSE
  /\ UNCHANGED <<env, client, paused, net, server>>
-----------------------------------------------------------------------------
(* The decode node. *)

Incoming == cur \in Turns /\ c2s[cur] # <<>>
EndOfFile == c2s[cur] = <<>> /\ cur \notin cOpen
Take == c2s' = [c2s EXCEPT ![cur] = Tail(@)]

\* The server leaves the connection and goes back to accept.
Leave == srv' = "accept" /\ sOpen' = sOpen \ {cur} /\ cur' = 0 /\ chunks' = 0

Stay(next) == srv' = next /\ UNCHANGED <<sOpen, cur, chunks>>

\* send_obj on the server's socket, then the rest of the handler.  When the
\* client has closed, the message is lost and the send may raise, which ends
\* the connection.
Reply(m, rest) ==
  \/ /\ s2c' = IF cur \in cOpen THEN [s2c EXCEPT ![cur] = Append(@, m)] ELSE s2c
     /\ rest
  \/ /\ cur \notin cOpen
     /\ UNCHANGED s2c
     /\ Leave

Accept ==
  /\ srv = "accept"
  /\ backlog # <<>>
  /\ cur' = Head(backlog)
  /\ backlog' = Tail(backlog)
  /\ srv' = "command" /\ chunks' = 0
  /\ UNCHANGED <<env, client, probe, c2s, s2c, cOpen, sOpen, decoded>>

\* run_decode with input_ids = None: the acknowledgement, then the handler
\* itself waits for the parameters.
RunDecode ==
  /\ srv = "command" /\ Incoming /\ Head(c2s[cur]) = "run_decode"
  /\ Take
  /\ \/ Reply("ack", Stay("params"))
     \/ env.handlerMayRaise /\ Reply("error", Stay("command"))
  /\ UNCHANGED <<env, client, probe, cOpen, backlog, decoded>>

RunDecodeAbkt ==
  /\ srv = "command" /\ Incoming /\ Head(c2s[cur]) = "init"
  /\ Take
  /\ \/ Stay("stream") /\ UNCHANGED s2c
     \/ env.handlerMayRaise /\ Reply("error", Stay("command"))
  /\ UNCHANGED <<env, client, probe, cOpen, backlog, decoded>>

\* Mutant: an unknown op is skipped without an answer.
UnknownOpSilent ==
  /\ srv = "command" /\ Incoming
  /\ Head(c2s[cur]) \in {"params", "chunk", "decode_start"}
  /\ Take
  /\ UNCHANGED <<env, client, probe, s2c, cOpen, sOpen, backlog, server>>

\* Parameters, chunks and decode_start are unknown ops outside a handler.
UnknownOp ==
  /\ srv = "command" /\ Incoming
  /\ Head(c2s[cur]) \in {"params", "chunk", "decode_start"}
  /\ Take
  /\ Reply("error", Stay("command"))
  /\ UNCHANGED <<env, client, probe, cOpen, backlog, decoded>>

\* op "shutdown": the answer, then serve_forever ends and closes everything.
Shutdown ==
  /\ srv = "command" /\ Incoming /\ Head(c2s[cur]) = "shutdown"
  /\ Take
  /\ \/ /\ s2c' = IF cur \in cOpen THEN [s2c EXCEPT ![cur] = Append(@, "bye")] ELSE s2c
        /\ srv' = "down" /\ sOpen' = {} /\ cur' = 0 /\ chunks' = 0
        /\ backlog' = <<>>
     \/ cur \notin cOpen /\ Leave /\ UNCHANGED <<s2c, backlog>>
  /\ UNCHANGED <<env, client, probe, cOpen, decoded>>

Disconnected ==
  /\ srv \in {"command", "stream"} /\ EndOfFile
  /\ Leave
  /\ UNCHANGED <<env, client, probe, c2s, s2c, cOpen, backlog, decoded>>

\* The handler's recv_obj: a shutdown message is a dict as well, its missing
\* input_ids make the decode loop raise.  A lost connection raises here too.
DecodeParams ==
  /\ srv = "params"
  /\ \/ Incoming /\ Head(c2s[cur]) = "params" /\ Take /\ Stay("decode_fp16")
        /\ UNCHANGED s2c
     \/ Incoming /\ Head(c2s[cur]) # "params" /\ Take
        /\ Reply("error", Stay("command"))
     \/ EndOfFile /\ Reply("error", Stay("command")) /\ UNCHANGED c2s
  /\ UNCHANGED <<env, client, probe, cOpen, backlog, decoded>>

DecodeFp16 ==
  /\ srv = "decode_fp16"
  /\ \/ decoded' = decoded \cup {cur} /\ Reply("result", Stay("command"))
     \/ env.handlerMayRaise /\ Reply("error", Stay("command")) /\ UNCHANGED decoded
  /\ UNCHANGED <<env, client, probe, c2s, cOpen, backlog>>

\* Stream mode: chunks are counted, anything but decode_start is skipped.
ReceiveChunk ==
  /\ srv = "stream" /\ Incoming /\ Head(c2s[cur]) # "decode_start"
  /\ Take
  /\ chunks' = IF Head(c2s[cur]) = "chunk" THEN chunks + 1 ELSE chunks
  /\ UNCHANGED <<env, client, probe, s2c, cOpen, sOpen, backlog, srv, cur, decoded>>

ReceiveDecodeStart ==
  /\ srv = "stream" /\ Incoming /\ Head(c2s[cur]) = "decode_start"
  /\ Take
  /\ Stay("decode_abkt")
  /\ UNCHANGED <<env, client, probe, s2c, cOpen, backlog, decoded>>

\* The wait for the assembly runs out when chunks are missing: only this
\* thread could still read them.  The stream ends with its connection.
DecodeAbkt ==
  /\ srv = "decode_abkt"
  /\ \/ chunks = NumChunks /\ decoded' = decoded \cup {cur} /\ Reply("result", Leave)
     \/ (env.handlerMayRaise \/ chunks # NumChunks)
        /\ Reply("error", Leave) /\ UNCHANGED decoded
  /\ UNCHANGED <<env, client, probe, c2s, cOpen, backlog>>
-----------------------------------------------------------------------------
ClientStep == Connect \/ ClientSend \/ PauseProbes \/ SendChunk \/ ResumeProbes
              \/ Receive \/ Raise \/ CloseTurn
ServerStep == Accept \/ RunDecode \/ RunDecodeAbkt \/ UnknownOp \/ Shutdown
              \/ Disconnected \/ DecodeParams \/ DecodeFp16 \/ ReceiveChunk
              \/ ReceiveDecodeStart \/ DecodeAbkt
ProbeStep == ProbeIteration \/ ProbeEnds

Next == (\E path \in {"abkt", "fp16"} : StartTurn(path)) \/ ClientStep \/ ServerStep \/ ProbeStep

Spec == Init /\ [][Next]_vars

\* The threads keep running; a turn starts when the user says so.
FairSpec == Spec /\ WF_vars(ClientStep) /\ WF_vars(ServerStep)
-----------------------------------------------------------------------------
\* Types, and who holds what: the client holds at most the connection of its
\* own turn, the server serves a connection only while it has left accept.
TypeOK ==
  /\ env \in Environments
  /\ turn \in 1 .. MaxTurns + 1
  /\ ppc \in {"idle", "connect_fp16", "connect_abkt", "send_kv", "await_ack",
              "send_params", "await_result", "send_init", "pause",
              "send_chunks", "resume", "send_start", "close"}
  /\ sent \in 0 .. NumChunks
  /\ got \in {"none", "exception"} \cup ServerMessages
  /\ outcome \in [Turns -> {"none", "ok", "error"}]
  /\ paused \in BOOLEAN /\ probing \in BOOLEAN
  /\ c2s \in [Turns -> Seq(ClientMessages)] /\ s2c \in [Turns -> Seq(ServerMessages)]
  /\ cOpen \subseteq {turn} \cap Turns /\ sOpen \subseteq Turns
  /\ backlog \in Seq(Turns)
  /\ srv \in {"accept", "command", "params", "stream", "decode_fp16", "decode_abkt", "down"}
  /\ cur \in 0 .. MaxTurns /\ (cur = 0 <=> srv \in {"accept", "down"})
  /\ chunks \in 0 .. NumChunks
  /\ decoded \subseteq Turns

\* The two nodes never wait for each other on one connection with nothing in
\* flight, however the handler fails and although the client does not look
\* at the acknowledgement it waits for.
NoMutualWait ==
  ~ /\ Awaiting /\ s2c[turn] = <<>> /\ turn \in sOpen
    /\ cur = turn /\ srv \in {"command", "params", "stream"} /\ c2s[turn] = <<>>

\* Documented by serve_forever: after a client disconnects the server goes on
\* listening.
ServerKeepsListening == srv # "down"

\* ABKT turns in which no step raises.
Undisturbed == env.paths = {"abkt"} /\ ~env.clientMayRaise /\ ~env.handlerMayRaise

\* Then every turn is served, whatever the ones before it left behind on the
\* server, and the server outlives them: the farewell of a client is never
\* read as the command that stops it.
AllTurnsServed ==
  Undisturbed => ServerKeepsListening /\ \A t \in Turns : outcome[t] # "error"

\* Between two turns the bandwidth probes run: the pause a transfer asks for
\* never outlives the turn, or the estimate of the next ones is stale.
ProbesResumed == paused => ppc # "idle"
AbktProbesResumed == Undisturbed => ProbesResumed

\* Claimed by pause_bw_probes: no bandwidth probe competes with a transfer.
NoProbeDuringTransfer == ~ (probing /\ ppc = "send_chunks")

\* The session implements PDTurns.
Session == INSTANCE PDTurns WITH running <- ppc # "idle"
TurnsSpec == Session!Spec
=============================================================================
