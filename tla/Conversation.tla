---------------------------- MODULE Conversation ----------------------------
(***************************************************************************)
(* run_interactive: the loop that reads lines, puts a prompt together from *)
(* the conversation so far, has it prefilled and decoded, and takes what   *)
(* comes back into the conversation.  The decode node works on a turn as   *)
(* DecodeLoop says; what happens on the way there and back is one of the   *)
(* ways a turn ends.                                                       *)
(***************************************************************************)
EXTENDS DecodeLoop, SequencesExt

CONSTANT Chats           \* see ChatType

\* The tokenizer: with a chat template, without one, or none at all; the
\* system prompt; the initial prompt: none, a message, or a line that begins
\* with "/", which is read as a command like any other; max_new_tokens; whether
\* first tokens are sent (always, by this prefill node); and how many turns are
\* tried.
ChatType ==
  [tokenizer: {"template", "plain", "ascii"}, system: BOOLEAN,
   initial: {"none", "message", "clear", "quit", "unknown"}, tokens: Requests, first: FirstGiven, turns: Nat]

ASSUME ChatAssumption == Chats \subseteq ChatType /\ Layers \in KeptSets

VARIABLES
  chat,      \* how the program was started
  at,        \* where run_interactive is
  history,   \* conversation_ids
  turns,     \* turn_count
  ids,       \* full_ids of the turn
  screen     \* what was said and answered since the last /clear

decoding == <<input, pc, text, left, cache, mask>>
talk == <<history, turns, ids, screen>>
chatVars == <<chat, at, talk, decoding>>

\* A token, by who it is from and in which turn.
Token(who, turn, i) == [who |-> who, turn |-> turn, i |-> i]
System == IF chat.system THEN <<Token("system", 0, 1)>> ELSE <<>>
Generation(n) == [i \in 1 .. n |-> Token("model", turns, i)]
ErrorText == <<Token("error", turns, 1)>>
Nothing == <<Token("interrupt", turns, 1)>>

ChatInit ==
  /\ chat \in Chats
  /\ at = "read" /\ history = System
  /\ turns = 0 /\ ids = <<>> /\ screen = <<>>
  /\ prompt = 1 /\ asked = chat.tokens /\ first = chat.first /\ kept = Layers
  /\ pc = "begin" /\ text = 1 /\ left = 0 /\ mask = 0
  /\ cache = [l \in Layers |-> <<1>>]
-----------------------------------------------------------------------------
\* As long as no turn was started the initial prompt is read, then the user.
InitialIsRead == turns = 0 /\ chat.initial # "none"
MayRead(kind) == at = "read" /\ (InitialIsRead => chat.initial = kind)

\* An empty line, /info or an unknown command.
Ignored ==
  /\ MayRead("unknown")
  /\ UNCHANGED chatVars

\* /clear
Clear ==
  /\ MayRead("clear")
  /\ history' = System /\ turns' = 0 /\ screen' = <<>>
  /\ UNCHANGED <<chat, at, ids, decoding>>

\* /quit, or the end of the input.
Quit ==
  /\ MayRead("quit")
  /\ at' = "over"
  /\ UNCHANGED <<chat, talk, decoding>>

\* full_ids: a chat template is applied to the system prompt and the message
\* alone; without one, or if it raises, the message is put behind the
\* conversation.
FullIds(message) ==
  {history \o <<message>>}
  \cup (IF chat.tokenizer = "template" THEN {System \o <<message>>} ELSE {})

\* Mutant: the turn is counted once it is answered.
StartTurnUncounted ==
  /\ MayRead("message") /\ turns < chat.turns
  /\ ids' \in FullIds(Token(IF InitialIsRead THEN "initial" ELSE "user", turns, 1))
  /\ prompt' = Len(ids') /\ text' = prompt' /\ kept' \in KeptSets
  /\ pc' = "begin" /\ left' = 0 /\ mask' = 0
  /\ cache' = [l \in Layers |-> IF l \in kept' THEN [i \in 1 .. prompt' |-> i] ELSE <<>>]
  /\ at' = "turn"
  /\ UNCHANGED <<chat, history, turns, screen, asked, first>>

\* A message: the prompt is prefilled, its cache sent, as far as layers are
\* kept, and a request for it begins on the decode node.
StartTurn ==
  /\ MayRead("message") /\ turns < chat.turns
  /\ turns' = turns + 1
  /\ ids' \in FullIds(Token(IF InitialIsRead THEN "initial" ELSE "user", turns', 1))
  /\ prompt' = Len(ids') /\ text' = prompt' /\ kept' \in KeptSets
  /\ pc' = "begin" /\ left' = 0 /\ mask' = 0
  /\ cache' = [l \in Layers |-> IF l \in kept' THEN [i \in 1 .. prompt' |-> i] ELSE <<>>]
  /\ at' = "turn"
  /\ UNCHANGED <<chat, history, screen, asked, first>>

DecodeTurn ==
  /\ at = "turn"
  /\ (Begin \/ Verify \/ Step \/ Finish)
  /\ UNCHANGED <<chat, at, talk>>

\* What is shown for the turn: the message and the answer, token by token.
Show(answer) == screen' = Append(screen, [said |-> Last(ids), answer |-> answer])

\* Mutant: the conversation is put before what came back, which has it already.
AnsweredTwice ==
  /\ at = "turn" /\ pc = "done"
  /\ history' = history \o ids \o Generation(Generated)
  /\ Show(Generation(Generated))
  /\ at' = "read"
  /\ UNCHANGED <<chat, turns, ids, decoding>>

\* generated_ids is the prompt with what was generated.
Answered ==
  /\ at = "turn" /\ pc = "done"
  /\ history' = ids \o Generation(Generated)
  /\ Show(Generation(Generated))
  /\ at' = "read"
  /\ UNCHANGED <<chat, turns, ids, decoding>>

\* The handler raised: the reply has neither ids nor text.
HandlerFailed ==
  /\ at = "turn"
  /\ history' = ids
  /\ Show(<<>>)
  /\ at' = "read"
  /\ UNCHANGED <<chat, turns, ids, decoding>>

\* The transfer raised: run_prefill_turn returns the error as text, which is
\* encoded if there is a tokenizer.
TransferFailed ==
  /\ at = "turn"
  /\ history' = (IF chat.tokenizer = "ascii" THEN ids ELSE ids \o ErrorText)
  /\ Show(ErrorText)
  /\ at' = "read"
  /\ UNCHANGED <<chat, turns, ids, decoding>>

\* Anything raised before the transfer ends the program.
PrefillFailed ==
  /\ at = "turn" /\ pc = "begin"
  /\ at' = "over"
  /\ UNCHANGED <<chat, talk, decoding>>

\* Ctrl+C while reading or in a turn, which leaves no trace but on the
\* screen; then Enter, or Ctrl+C again.
Interrupt ==
  /\ \/ at = "read" /\ UNCHANGED screen
     \/ at = "turn" /\ Show(Nothing)
  /\ at' = "interrupted"
  /\ UNCHANGED <<chat, history, turns, ids, decoding>>

Resume ==
  /\ at = "interrupted" /\ at' \in {"read", "over"}
  /\ UNCHANGED <<chat, talk, decoding>>

Over == at = "over" /\ UNCHANGED chatVars

ChatNext == \/ Ignored \/ Clear \/ Quit \/ StartTurn \/ DecodeTurn \/ Answered
            \/ HandlerFailed \/ TransferFailed \/ PrefillFailed \/ Interrupt \/ Resume \/ Over

ChatSpec == ChatInit /\ [][ChatNext]_chatVars
-----------------------------------------------------------------------------
\* Types of the loop; its turn is the request the decode node works on.
ChatTypeOK ==
  /\ TypeOK
  /\ chat \in Chats /\ at \in {"read", "turn", "interrupted", "over"}
  /\ turns \in 0 .. chat.turns /\ Len(screen) <= turns
  /\ at = "turn" => prompt = Len(ids)

\* What the model has been told and has said, as the user saw it: each
\* exchange that was not interrupted, once, in order, since the last /clear;
\* without a tokenizer errors are shown only.
Conversed ==
  LET kind(x) == IF x.answer = <<>> THEN "model" ELSE x.answer[1].who
      told(x) == CASE kind(x) = "interrupt" -> <<>>
                   [] kind(x) = "error" /\ chat.tokenizer = "ascii" -> <<x.said>>
                   [] OTHER -> <<x.said>> \o x.answer
  IN  System \o FlattenSeq([i \in DOMAIN screen |-> told(screen[i])])

\* The model is prompted with the conversation on the screen and the new
\* message, however the turns before it ended and how many tokens they got.
PromptIsConversation ==
  at = "turn" /\ chat.tokenizer # "template" => ids = Conversed \o <<Last(ids)>>

\* The initial prompt opens the conversation once: a first turn that fails or
\* is interrupted does not send it again, only /clear does.
InitialPromptOnce ==
  at = "turn" /\ Last(ids).who = "initial" =>
    \A i \in DOMAIN screen : screen[i].said.who # "initial"
=============================================================================
