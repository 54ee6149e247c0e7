------------------------------ MODULE PDTurns ------------------------------
(***************************************************************************)
(* What the prefill/decode session promises, without sockets: turns run    *)
(* one after the other, every turn that starts is answered, and a turn is  *)
(* only reported as generated when the decode node decoded its cache.  The *)
(* decode node may decode a turn the prefill node has given up on.         *)
(***************************************************************************)
EXTENDS Naturals

CONSTANT MaxTurns

VARIABLES turn,     \* the turn that is running, or the next one
          running,  \* is it running?
          decoded,  \* turns whose cache was decoded
          outcome   \* what the user was shown for each turn

vars == <<turn, running, decoded, outcome>>

Init == /\ turn = 1 /\ running = FALSE /\ decoded = {}
        /\ outcome = [t \in 1 .. MaxTurns |-> "none"]

Start == /\ ~running
         /\ turn <= MaxTurns
         /\ running' = TRUE
         /\ UNCHANGED <<turn, decoded, outcome>>

Decode == /\ \E t \in 1 .. turn : /\ t \notin decoded
                                  /\ t = turn => running
                                  /\ decoded' = decoded \cup {t}
          /\ UNCHANGED <<turn, running, outcome>>

Answer(answer) == /\ running
                  /\ answer = "ok" => turn \in decoded
                  /\ outcome' = [outcome EXCEPT ![turn] = answer]
                  /\ running' = FALSE
                  /\ turn' = turn + 1
                  /\ UNCHANGED decoded

Next == Start \/ Decode \/ \E answer \in {"ok", "error"} : Answer(answer)

Spec == Init /\ [][Next]_vars /\ WF_vars(Answer("ok") \/ Answer("error"))
=============================================================================
