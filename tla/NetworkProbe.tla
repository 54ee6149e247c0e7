---------------------------- MODULE NetworkProbe ----------------------------
(***************************************************************************)
(* NetworkProbeClient: the probe thread, and the prefill thread that       *)
(* forces probes, pauses them, transfers and records.  Samples go into one *)
(* window under the lock, what is measured is the link as it is shared at  *)
(* the time.  With it, the state machine that is fed with the median of    *)
(* the window and the connection the echo probes keep to the ProbeServer.  *)
(***************************************************************************)
EXTENDS NetworkStateMachine, SequencesExt, FiniteSetsExt

CONSTANTS
  WindowSize,            \* BW_WINDOW_SIZE
  ColdBw,                \* COLD_BW
  ConfidenceTransfers, ProbeRatio,
  DecayStart, DecaySteps, \* CONFIDENCE_DECAY_*, in steps of the clock
  ProbesPerBw,           \* by state: iterations from one bandwidth probe to the next
  Cycle,                 \* a multiple of them all: rtt_count is kept modulo Cycle
  NoLink,                \* no transfer EWMA, or no RTT yet
  ProbeEnvironments      \* see ProbeEnvironmentType

\* The speeds the link changes between, the round trip times, whether probes
\* can fail, whether transfers can, whether there are any, and the ratios
\* between what a transfer counts as and what it carries: compression_ratio,
\* over the share of the time that was spent on decoding.
ProbeEnvironmentType ==
  [links: SUBSET Bandwidths, rtts: SUBSET Rtts, fails: BOOLEAN, raises: BOOLEAN, prefill: BOOLEAN,
   ratios: SUBSET {<<2, 1>>, <<1, 1>>, <<1, 2>>}]

ASSUME ProbeAssumption ==
  /\ WindowSize \in Nat \ {0} /\ ColdBw \in Nat /\ NoLink = 0
  /\ ConfidenceTransfers \in Nat \ {0} /\ ProbeRatio \in Nat \ {0}
  /\ DecayStart \in Nat /\ DecaySteps \in Nat \ {0}
  /\ Cycle \in Nat \ {0}
  /\ \A s \in Classes \cup {"UNKNOWN"} : ProbesPerBw[s] \in Nat \ {0} /\ Cycle % ProbesPerBw[s] = 0
  /\ ProbeEnvironments \subseteq ProbeEnvironmentType

\* What is measured is positive: units are small enough for a shared link, and
\* for what a transfer counts as on it, to carry at least one.
ASSUME SpeedsAssumption ==
  \A e \in ProbeEnvironments : (\A l \in e.links : l >= 4) /\ e.rtts \subseteq Nat

VARIABLES
  env,        \* the circumstances
  link,       \* what the link carries
  window,     \* _bw_window; of a probe also the link it measured throughout
  ewma,       \* _bw_transfer_ewma
  rtt,        \* _rtt_ewma
  transfers,  \* _transfer_count, as far as it counts
  probes,     \* _probe_count, as far as it counts
  idle,       \* time since the last transfer, as far as it counts
  paused,     \* _bw_probes_paused
  conn,       \* _rtt_conn: "none", "open", or "closed" by the server
  count,      \* rtt_count
  lpc, mpc,   \* what the probe thread and the prefill thread are doing
  began       \* what their measurement would have come to when it began

estimate == <<window, ewma, transfers, probes, idle>>
thread == <<lpc, mpc, began>>
probeVars == <<env, link, estimate, rtt, paused, conn, count, thread, state, history>>

ProbeInit ==
  /\ Init
  /\ env \in ProbeEnvironments /\ link \in env.links
  /\ window = <<>> /\ ewma = NoLink /\ rtt = NoLink
  /\ transfers = 0 /\ probes = 0 /\ idle = 0
  /\ paused = FALSE /\ conn = "none" /\ count = 0
  /\ lpc = "idle" /\ mpc = "idle" /\ began = [t \in {"loop", "main"} |-> NoLink]
-----------------------------------------------------------------------------
\* The deque, and what get_effective_bw and the state machine read from it.
\* Mutant: a full window takes nothing in.
SampledOldest(bw, on) ==
  IF Len(window) = WindowSize THEN window ELSE Append(window, [bw |-> bw, on |-> on])

\* Mutant: the deque has no maxlen.
SampledAll(bw, on) == Append(window, [bw |-> bw, on |-> on])

Sampled(bw, on) == LET w == Append(window, [bw |-> bw, on |-> on])
                   IN  IF Len(w) > WindowSize THEN Tail(w) ELSE w

Speeds(w) == {w[i].bw : i \in DOMAIN w}
Sorted(w) == SortSeq([i \in DOMAIN w |-> w[i].bw], <)

\* Mutant: the second smallest sample, the tenth of ten left out.
WindowBwSecond == Sorted(window)[IF Len(window) > 1 THEN 2 ELSE 1]

\* BW_PERCENTILE_INDEX is 0.
WindowBw == Min(Speeds(window))

\* _get_bw_for_state_machine
Median(w) == IF w = <<>> THEN ColdBw ELSE Sorted(w)[Len(w) \div 2 + 1]

\* The divergence test of 2.5 changes nothing: beyond it the transfers are
\* the smaller of the two.
Base == IF window = <<>> THEN ewma ELSE Min({WindowBw, ewma})

\* Confidence, and what the time since the last transfer leaves of it.
FullConfidence == ConfidenceTransfers * ProbeRatio
Confidence == Max({transfers * ProbeRatio, probes})
Decay == IF transfers = 0 \/ idle <= DecayStart THEN DecaySteps
         ELSE Max({0, DecaySteps - (idle - DecayStart)})

\* get_effective_bw, times Scale: 0.7 of the estimate, 0.8 with confidence.
Scale == 10 * FullConfidence * DecaySteps

\* Mutant: the decay is applied to the margin.
EffectiveDecayed ==
  IF ewma = NoLink THEN (IF window = <<>> THEN ColdBw ELSE WindowBw) * (7 * FullConfidence * DecaySteps)
  ELSE Base * (7 * FullConfidence + Confidence) * Decay

Effective ==
  IF ewma = NoLink THEN (IF window = <<>> THEN ColdBw ELSE WindowBw) * (7 * FullConfidence * DecaySteps)
  ELSE Base * (7 * FullConfidence * DecaySteps + Confidence * Decay)

\* EWMA.update with alpha 1/2, and update_clamped with a cap of 20 %; whole units.
Smoothed(old, x) == IF old = NoLink THEN x ELSE (old + x) \div 2
Clamped(old, x) ==
  IF old = NoLink THEN x
  ELSE Min({Max({(old + x) \div 2, (4 * old + 4) \div 5}), (6 * old) \div 5})
-----------------------------------------------------------------------------
\* Who else is on the link: it is shared with a probe or a transfer.
Share(other) == IF other \in {"probing", "fp16", "abkt"} THEN link \div 2 ELSE link

\* What a measurement comes to when the link changed meanwhile.
Measured(t, other) == {began[t], Share(other)}

\* _probe_bandwidth once the answer is there: sample, count, state machine.
\* A sample that was begun on another link is torn.
TakeSample(t, other) ==
  /\ \E bw \in Measured(t, other) :
       window' = Sampled(bw, IF began[t] \in {link, link \div 2} THEN link ELSE NoLink)
  /\ probes' = Min({probes + 1, FullConfidence})
  /\ Update(Median(window'), rtt)
  /\ began' = [began EXCEPT ![t] = NoLink]
  /\ UNCHANGED <<ewma, transfers, idle>>

\* One iteration of _probe_loop that is due a bandwidth probe, up to sending.
Due == count % ProbesPerBw[state] = 0 /\ ~paused

LoopProbe ==
  /\ lpc = "idle" /\ Due
  /\ lpc' = "probing" /\ began' = [began EXCEPT !["loop"] = Share(mpc)]
  /\ count' = (count + 1) % Cycle
  /\ UNCHANGED <<env, link, estimate, rtt, paused, conn, mpc, state, history>>

LoopSample ==
  /\ lpc = "probing" /\ lpc' = "idle"
  /\ TakeSample("loop", mpc)
  /\ UNCHANGED <<env, link, rtt, paused, conn, count, mpc>>

LoopProbeFails ==
  /\ env.fails /\ lpc = "probing" /\ lpc' = "idle" /\ began' = [began EXCEPT !["loop"] = NoLink]
  /\ UNCHANGED <<env, link, estimate, rtt, paused, conn, count, mpc, state, history>>

\* The other iterations: _probe_rtt over the connection that is kept.  An
\* empty answer of a connection the server has closed counts as a round trip
\* of no time.
Echo ==
  /\ lpc = "idle" /\ ~Due
  /\ count' = (count + 1) % Cycle
  /\ \E r \in env.rtts :
       LET ms == IF conn = "closed" THEN 1 ELSE r IN
       /\ rtt' = Smoothed(rtt, ms)
       /\ Update(Median(window), rtt')
  /\ conn' = IF conn = "none" THEN "open" ELSE conn
  /\ UNCHANGED <<env, link, estimate, paused, thread>>

EchoFails ==
  /\ lpc = "idle" /\ ~Due
  /\ env.fails \/ conn = "closed"
  /\ count' = (count + 1) % Cycle
  /\ conn' = "none"
  /\ UNCHANGED <<env, link, estimate, rtt, paused, thread, state, history>>

\* ProbeServer._handle gives a connection up after ten seconds of silence.
ServerCloses ==
  /\ env.fails /\ conn = "open" /\ lpc = "probing"
  /\ conn' = "closed"
  /\ UNCHANGED <<env, link, estimate, rtt, paused, count, thread, state, history>>
-----------------------------------------------------------------------------
\* The prefill thread: probe_now as long as no transfer was recorded ...
ForceProbe ==
  /\ env.prefill /\ mpc = "idle" /\ transfers = 0
  /\ mpc' = "probing" /\ began' = [began EXCEPT !["main"] = Share(lpc)]
  /\ UNCHANGED <<env, link, estimate, rtt, paused, conn, count, lpc, state, history>>

ForcedSample ==
  /\ mpc = "probing" /\ mpc' = "ready"
  /\ TakeSample("main", lpc)
  /\ UNCHANGED <<env, link, rtt, paused, conn, count, lpc>>

ForcedFails ==
  /\ env.fails /\ mpc = "probing" /\ mpc' = "ready" /\ began' = [began EXCEPT !["main"] = NoLink]
  /\ UNCHANGED <<env, link, estimate, rtt, paused, conn, count, lpc, state, history>>

\* ... a transfer; the ABKT path pauses the probes for it ...
StartTransfer ==
  /\ env.prefill /\ (mpc = "ready" \/ (mpc = "idle" /\ transfers > 0))
  /\ mpc' \in {"fp16", "abkt"} /\ began' = [began EXCEPT !["main"] = Share(lpc)]
  /\ paused' = (IF mpc' = "abkt" THEN TRUE ELSE paused)
  /\ UNCHANGED <<env, link, estimate, rtt, conn, count, lpc, state, history>>

\* ... and resumes them, unless the transfer raises.
EndTransfer ==
  /\ mpc \in {"fp16", "abkt"}
  /\ mpc' \in {"record"} \cup (IF env.raises THEN {"idle"} ELSE {})
  /\ paused' = (IF mpc = "abkt" /\ mpc' = "record" THEN FALSE ELSE paused)
  /\ \E bw \in IF mpc' = "record" THEN Measured("main", lpc) ELSE {NoLink} :
       began' = [began EXCEPT !["main"] = bw]
  /\ UNCHANGED <<env, link, estimate, rtt, conn, count, lpc, state, history>>

\* record_transfer, with the bytes of the uncompressed cache and the time up
\* to the reply; transfers that are too small or too quick are left out.
Record ==
  /\ mpc = "record" /\ mpc' = "idle"
  /\ \/ \E ratio \in env.ratios :
          LET bw == (began["main"] * ratio[1]) \div ratio[2] IN
          /\ window' = Sampled(bw, NoLink)
          /\ ewma' = Clamped(ewma, bw)
          /\ transfers' = Min({transfers + 1, ConfidenceTransfers})
          /\ idle' = 0
     \/ UNCHANGED <<window, ewma, transfers, idle>>
  /\ began' = [began EXCEPT !["main"] = NoLink]
  /\ UNCHANGED <<env, link, probes, rtt, paused, conn, count, lpc, state, history>>
-----------------------------------------------------------------------------
LinkChanges ==
  /\ link' \in env.links \ {link}
  /\ UNCHANGED <<env, estimate, rtt, paused, conn, count, thread, state, history>>

TimePasses ==
  /\ transfers > 0 /\ idle < DecayStart + DecaySteps /\ idle' = idle + 1
  /\ UNCHANGED <<env, link, window, ewma, transfers, probes, rtt, paused, conn, count, thread, state, history>>

\* The steps that give the state machine a sample, and the others.
Sampling == LoopSample \/ Echo \/ ForcedSample
Quiet == LoopProbe \/ LoopProbeFails \/ EchoFails \/ ServerCloses \/ ForceProbe \/ ForcedFails
         \/ StartTransfer \/ EndTransfer \/ Record \/ LinkChanges \/ TimePasses
Loop == LoopProbe \/ LoopSample \/ LoopProbeFails \/ Echo \/ EchoFails

ProbeNext == Sampling \/ Quiet
ProbeSpec == ProbeInit /\ [][ProbeNext]_probeVars /\ WF_probeVars(Loop)
-----------------------------------------------------------------------------
\* Types; samples are whole speeds, the counts are capped where confidence is.
ProbeTypeOK ==
  /\ TypeOK
  /\ env \in ProbeEnvironments /\ link \in env.links
  /\ window \in Seq([bw: Nat, on: Bandwidths \cup {NoLink}])
  /\ Len(window) <= WindowSize
  /\ ewma \in Nat /\ rtt \in Nat
  /\ transfers \in 0 .. ConfidenceTransfers /\ probes \in 0 .. FullConfidence
  /\ idle \in 0 .. DecayStart + DecaySteps
  /\ transfers = 0 <=> ewma = NoLink
  /\ paused \in BOOLEAN /\ conn \in {"none", "open", "closed"} /\ count \in 0 .. Cycle - 1
  /\ lpc \in {"idle", "probing"}
  /\ mpc \in {"idle", "probing", "ready", "fp16", "abkt", "record"}

\* However the samples, the smoothed transfers, confidence and its decay
\* combine, the estimate is between 0.7 and 0.8 of the smallest of them, once
\* there are both samples and an average of transfers.
EstimateInMargin ==
  window # <<>> /\ ewma # NoLink =>
    LET least == Min(Speeds(window) \cup {ewma})
    IN  7 * Scale * least <= 10 * Effective /\ 10 * Effective <= 8 * Scale * least

\* As long as the window holds one probe of the link as it is, the estimate
\* leaves a fifth of the link free: samples of a faster link, and transfers
\* that count with the size of the uncompressed cache, do not raise it.
EstimateWithinLink ==
  (\E i \in DOMAIN window : window[i].on = link) =>
    10 * Effective <= 8 * Scale * link

\* The state follows the link: once the link stays as it is, the window, the
\* median and the votes end in the class of the link.
StateFollowsLink ==
  ~env.fails /\ ~env.prefill /\ (\A r \in env.rtts : r <= GoodRtt) =>
    \A l \in Bandwidths : <>[](link = l) => <>[](state = Classify(l, GoodRtt))
=============================================================================
