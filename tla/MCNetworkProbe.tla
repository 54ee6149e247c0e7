--------------------------- MODULE MCNetworkProbe ---------------------------
(***************************************************************************)
(* NetworkProbe with the votes of config.py and, beside it, an observer of *)
(* the state's moves: sinceDrop counts the samples since the last          *)
(* downgrade (at most Horizon).                                            *)
(***************************************************************************)
EXTENDS NetworkProbe

CONSTANT Horizon     \* bound: samples the observer remembers a downgrade

ASSUME HorizonAssumption == Horizon \in Nat /\ Horizon >= UpgradeWindow - DowngradeWindow

VARIABLE sinceDrop

Slow == 7
Middle == 20
Fast == 40
MCProbesPerBw == [UNKNOWN |-> 1, GOOD |-> 2, DEGRADED |-> 2, POOR |-> 2]

\* Only probes, on a link that changes; probes that may fail; transfers on a
\* slow link that may raise.
Probing == [links |-> {Slow, Middle, Fast}, rtts |-> {2}, fails |-> FALSE, raises |-> FALSE,
            prefill |-> FALSE, ratios |-> {}]
MCProbeEnvironments ==
  {Probing,
   [Probing EXCEPT !.links = {Fast}, !.rtts = {2, 30}, !.fails = TRUE],
   [Probing EXCEPT !.links = {Slow}, !.raises = TRUE, !.prefill = TRUE, !.ratios = {<<2, 1>>}]}

MCInit == ProbeInit /\ sinceDrop = Horizon

Known == state # "UNKNOWN"
Drops == Known /\ Rank(state') > Rank(state)
Rises == Known /\ Rank(state') < Rank(state)

Observe == sinceDrop' = IF Drops THEN 0
                        ELSE IF sinceDrop < Horizon THEN sinceDrop + 1 ELSE Horizon

MCNext == (Sampling /\ Observe) \/ (Quiet /\ UNCHANGED sinceDrop)

allVars == <<probeVars, sinceDrop>>
MCSpec == MCInit /\ [][MCNext]_allVars /\ WF_allVars(MCNext /\ Loop)

\* No flapping upwards: after a downgrade at least two more samples are seen
\* before the state may rise (_resolve_state asks for 4 of the last 5, and
\* the samples that caused the downgrade are still among them).
NoInstantRecovery == [][Rises => sinceDrop >= UpgradeWindow - DowngradeWindow]_allVars
=============================================================================
