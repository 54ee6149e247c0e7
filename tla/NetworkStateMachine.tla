------------------------ MODULE NetworkStateMachine ------------------------
(***************************************************************************)
(* NetworkStateMachine: every probe sample is classified, remembered with  *)
(* the latest UpgradeWindow ones (a deque), and the state follows by       *)
(* voting: a worse class needs DowngradeVotes of the last DowngradeWindow  *)
(* samples, a better one UpgradeVotes of the last UpgradeWindow.           *)
(***************************************************************************)
EXTENDS Integers, Sequences, FiniteSets

CONSTANTS
  Bandwidths, Rtts,          \* samples: bytes per second and milliseconds
  PoorBw, GoodBw, GoodRtt,   \* thresholds of config.py
  DowngradeVotes, DowngradeWindow, UpgradeVotes, UpgradeWindow

ASSUME SamplesAssumption ==
  /\ Bandwidths \subseteq Int /\ Rtts \subseteq Int
  /\ PoorBw \in Int /\ GoodBw \in Int /\ GoodRtt \in Int

\* 2 of 3 and 4 of 5 in config.py: two majorities of a window that overlap.
ASSUME VotesAssumption ==
  /\ DowngradeWindow \in Nat /\ UpgradeWindow \in Nat
  /\ DowngradeVotes \in 1 .. DowngradeWindow
  /\ UpgradeVotes \in 1 .. UpgradeWindow
  /\ DowngradeWindow <= UpgradeWindow
  /\ DowngradeVotes <= UpgradeVotes
  /\ DowngradeVotes + UpgradeVotes > UpgradeWindow

VARIABLES state, history

vars == <<state, history>>

Classes == {"GOOD", "DEGRADED", "POOR"}
Rank(class) == CASE class = "GOOD" -> 0 [] class = "DEGRADED" -> 1 [] OTHER -> 2

\* An RTT above RTT_DEGRADED_THRESHOLD adds nothing: what is neither POOR nor
\* GOOD is DEGRADED whichever test says so.
Classify(bw, rtt) == IF bw < PoorBw THEN "POOR"
                     ELSE IF bw >= GoodBw /\ rtt <= GoodRtt THEN "GOOD"
                     ELSE "DEGRADED"

\* deque(maxlen = max of both windows).append
Remember(h, raw) == IF Len(h) < UpgradeWindow THEN Append(h, raw)
                    ELSE Append(Tail(h), raw)

\* _count_in_window
Voters(h, class, window) == {i \in 1 .. Len(h) : i > Len(h) - window /\ h[i] = class}
Votes(h, class, window) == Cardinality(Voters(h, class, window))

\* Mutant: recovery is as fast as the drop.
ResolveFast(h, raw) ==
  IF Votes(h, raw, DowngradeWindow) >= DowngradeVotes THEN raw ELSE state

\* Mutant: one better sample is enough to recover.
ResolveEager(h, raw) ==
  IF \/ state = "UNKNOWN"
     \/ Rank(raw) > Rank(state) /\ Votes(h, raw, DowngradeWindow) >= DowngradeVotes
     \/ Rank(raw) < Rank(state)
  THEN raw ELSE state

\* Mutant: the recovery is counted in the downgrade window.
ResolveWrongWindow(h, raw) ==
  IF \/ state = "UNKNOWN"
     \/ Rank(raw) > Rank(state) /\ Votes(h, raw, DowngradeWindow) >= DowngradeVotes
     \/ Rank(raw) < Rank(state) /\ Votes(h, raw, DowngradeWindow) >= UpgradeVotes
  THEN raw ELSE state

\* _resolve_state.  UNKNOWN, the state before any sample, adopts the first.
Resolve(h, raw) ==
  IF \/ state = "UNKNOWN"
     \/ Rank(raw) > Rank(state) /\ Votes(h, raw, DowngradeWindow) >= DowngradeVotes
     \/ Rank(raw) < Rank(state) /\ Votes(h, raw, UpgradeWindow) >= UpgradeVotes
  THEN raw ELSE state

Init == state = "UNKNOWN" /\ history = <<>>

Update(bw, rtt) ==
  LET raw == Classify(bw, rtt) IN
  /\ history' = Remember(history, raw)
  /\ state' = Resolve(history', raw)

Next == \E bw \in Bandwidths, rtt \in Rtts : Update(bw, rtt)

Spec == Init /\ [][Next]_vars
-----------------------------------------------------------------------------
\* Types: the deque holds at most the larger window, and the machine only
\* leaves UNKNOWN with a sample, for good.
TypeOK ==
  /\ state \in Classes \cup {"UNKNOWN"}
  /\ history \in Seq(Classes)
  /\ Len(history) <= UpgradeWindow
  /\ state = "UNKNOWN" <=> history = <<>>

\* Fast drop, and it lasts: as long as DowngradeVotes of the last
\* DowngradeWindow samples are of a class, the state is not better than it,
\* whatever arrived in between.  With a state too optimistic the allocator
\* would spend a budget the link does not have.
NeverTooOptimistic ==
  \A class \in Classes :
    Votes(history, class, DowngradeWindow) >= DowngradeVotes
      => Rank(state) >= Rank(class)

\* Slow rise, but it comes: UpgradeVotes samples of one class in a row, and
\* the state is that class, wherever it started from.
ConvergesOnSteady ==
  \A class \in Classes :
    Votes(history, class, UpgradeVotes) >= UpgradeVotes => state = class
=============================================================================
