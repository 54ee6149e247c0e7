------------------------- MODULE Conversation_proof -------------------------
(***************************************************************************)
(* The token loop of the decode node for every prompt, request and set of  *)
(* shed layers, and conversations of any length on top of it.              *)
(*                                                                         *)
(* The invariant of the loop counts: the cache of a kept layer is as long  *)
(* as the text, less the last token when there is a first one, the mask of *)
(* the last pass is as long as that cache, and what is left has not gone   *)
(* below zero for a request the loop can meet.                             *)
(*                                                                         *)
(* Every turn of a conversation begins like a request of DecodeLoop and    *)
(* goes on in its steps, so that invariant holds throughout; beside it the *)
(* screen is never longer than the turns that were begun, which is why the *)
(* initial prompt, read while there was none, comes first, and the history *)
(* is what is on the screen.  The lengths of the prompts are not bounded.  *)
(***************************************************************************)
EXTENDS Conversation, InductionLemmas, TLAPS

(* The token loop. *)

Large == asked >= 2 \/ (asked >= 0 /\ ~first)
CacheLength == IF first /\ pc # "begin" THEN text - 1 ELSE text

Counts ==
  /\ \A l \in kept : Len(cache[l]) = CacheLength
  /\ mask # 0 /\ 0 \in kept => mask = CacheLength
  /\ pc = "begin" => text = prompt /\ mask = 0
  /\ pc # "begin" => text >= prompt
  /\ pc # "begin" /\ first => text >= prompt + 1
  /\ pc = "verify" => first /\ left >= 0 /\ text = prompt + 1
  /\ Large /\ pc \in {"loop", "done"} => left >= 0
  /\ pc = "done" => left <= 0

Inv == TypeOK /\ CacheFollowsText /\ Counts

\* A kept layer is a layer.
LEMMA KeptLayers == ASSUME TypeOK PROVE kept \subseteq Layers /\ 0 \in Layers
  BY LayersAssumption, InputsAssumption DEF TypeOK

\* Appending the last token to a cache that holds the ones before it.
LEMMA AppendNext ==
  ASSUME NEW n \in Nat, NEW s, s = [i \in 1 .. n |-> i]
  PROVE  /\ Append(s, n + 1) = [i \in 1 .. n + 1 |-> i]
         /\ Len(s) = n
  OBVIOUS

\* A prompt is a sequence of tokens.
LEMMA PromptSeq ==
  ASSUME NEW n \in Nat
  PROVE  /\ [i \in 1 .. n |-> i] \in Seq(Nat)
         /\ Len([i \in 1 .. n |-> i]) = n
<1>1. [i \in 1 .. n |-> i] \in [1 .. n -> Nat]
  OBVIOUS
<1>2. [i \in 1 .. n |-> i] \in Seq(Nat)
  BY <1>1
<1> QED
  BY <1>2

LEMMA InitInv == Init => Inv
<1> SUFFICES ASSUME Init PROVE Inv
  OBVIOUS
<1>1. prompt \in Nat /\ kept \subseteq Layers
  BY InputsAssumption DEF Init
<1>2. \A l \in kept : cache[l] = [i \in 1 .. prompt |-> i]
  BY <1>1 DEF Init
<1>3. \A l \in kept : Len(cache[l]) = prompt
  BY <1>1, <1>2, PromptSeq
<1>4. \A l \in Layers : cache[l] \in Seq(Nat)
  <2> SUFFICES ASSUME NEW l \in Layers PROVE cache[l] \in Seq(Nat)
    OBVIOUS
  <2>1. CASE l \in kept
    BY <1>1, <1>2, <2>1, PromptSeq
  <2>2. CASE l \notin kept
    <3>1. cache[l] = <<>>
      BY <2>2 DEF Init
    <3> QED
      BY <3>1
  <2> QED
    BY <2>1, <2>2
<1>5. TypeOK
  BY <1>1, <1>4 DEF Init, TypeOK
<1> QED
  BY <1>1, <1>2, <1>3, <1>5 DEF Inv, Init, Counts, CacheFollowsText, CacheLength

\* A forward pass feeds the last token.
LEMMA ForwardInv ==
  ASSUME Inv, Forward, UNCHANGED input, pc' = "loop",
         \/ pc = "verify"
         \/ pc = "loop" /\ left > 0
  PROVE  Inv'
<1> USE DEF Inv
<1>1. kept \subseteq Layers /\ 0 \in Layers
  BY KeptLayers
<1>2. /\ text \in Nat /\ left \in Int /\ prompt \in Nat /\ asked \in Int
      /\ first \in BOOLEAN /\ mask \in Nat
  BY InputsAssumption DEF TypeOK
<1>3. /\ text' = text + 1 /\ left' = left - 1 /\ mask' = Len(cache[0]) + 1
      /\ kept' = kept /\ first' = first /\ prompt' = prompt /\ asked' = asked
  BY DEF Forward, PastLength, input
<1>4. ASSUME NEW l \in Layers
      PROVE  /\ cache[l] \in Seq(Nat)
             /\ cache'[l] = Append(cache[l], text)
             /\ cache'[l] \in Seq(Nat)
             /\ Len(cache'[l]) = Len(cache[l]) + 1
  BY <1>2 DEF TypeOK, Forward
<1>5. TypeOK'
  <2>1. cache' \in [Layers -> Seq(Nat)]
    BY <1>4 DEF Forward
  <2>2. mask' \in Nat
    BY <1>1, <1>3, <1>4
  <2> QED
    BY <1>2, <1>3, <2>1, <2>2 DEF TypeOK
<1>6. CacheFollowsText'
  <2> SUFFICES ASSUME first, NEW l \in kept
               PROVE  cache'[l] = [i \in 1 .. text' - 1 |-> i]
    BY <1>3 DEF CacheFollowsText
  <2>1. cache[l] = [i \in 1 .. text - 1 |-> i] /\ text - 1 \in Nat
    BY <1>2 DEF CacheFollowsText, Counts
  <2>2. Append(cache[l], (text - 1) + 1) = [i \in 1 .. (text - 1) + 1 |-> i]
    BY <2>1, AppendNext
  <2>3. (text - 1) + 1 = text /\ text' - 1 = text
    BY <1>2, <1>3
  <2>4. cache'[l] = Append(cache[l], text)
    BY <1>1, <1>4
  <2> QED
    BY <2>2, <2>3, <2>4
<1>7. Counts'
  <2>1. CacheLength' = CacheLength + 1
    BY <1>2, <1>3 DEF CacheLength
  <2>2. \A l \in kept' : Len(cache'[l]) = CacheLength'
    BY <1>1, <1>3, <1>4, <2>1 DEF Counts
  <2>3. mask' # 0 /\ 0 \in kept' => mask' = CacheLength'
    BY <1>1, <1>3, <2>1 DEF Counts
  <2>4. Large => left' >= 0
    BY <1>2, <1>3 DEF Counts, Large, TypeOK
  <2> QED
    BY <1>2, <1>3, <2>2, <2>3, <2>4 DEF Counts, Large
<1> QED
  BY <1>5, <1>6, <1>7

LEMMA StepInv == Inv /\ [Next]_vars => Inv'
<1> SUFFICES ASSUME Inv, [Next]_vars PROVE Inv'
  OBVIOUS
<1> USE DEF Inv
<1>0. /\ text \in Nat /\ left \in Int /\ prompt \in Nat /\ asked \in Int
      /\ first \in BOOLEAN /\ mask \in Nat
  BY InputsAssumption DEF TypeOK
<1>1. CASE Begin
  <2>1. TypeOK'
    BY <1>0, <1>1 DEF Begin, TypeOK, input, Counts
  <2>2. CacheFollowsText'
    BY <1>0, <1>1 DEF Begin, input, CacheFollowsText, Counts
  <2>3. CacheLength' = CacheLength /\ cache' = cache /\ kept' = kept /\ mask' = 0
    BY <1>0, <1>1 DEF Begin, input, CacheLength, Counts
  <2>4. Counts'
    BY <1>0, <1>1, <2>3 DEF Begin, input, Counts, Large
  <2> QED
    BY <2>1, <2>2, <2>4
<1>2. CASE Verify
  BY <1>2, ForwardInv DEF Verify
<1>3. CASE Step
  BY <1>3, ForwardInv DEF Step, input
<1>4. CASE Finish
  <2>1. CacheLength' = CacheLength
    BY <1>4 DEF Finish, input, CacheLength
  <2>2. Counts'
    BY <1>0, <1>4, <2>1 DEF Finish, input, Counts, Large
  <2> QED
    BY <1>4, <2>2 DEF Finish, input, TypeOK, CacheFollowsText
<1>5. CASE UNCHANGED vars
  BY <1>5 DEF vars, input, TypeOK, CacheFollowsText, Counts, Large, CacheLength
<1>6. CASE Done
  BY <1>5, <1>6 DEF Done
<1> QED
  BY <1>1, <1>2, <1>3, <1>4, <1>5, <1>6 DEF Next

\* The counters of handle_run_decode and run_decode_from_abkt are well typed
\* and add up to max_new_tokens.
THEOREM LoopType == Spec => []TypeOK
  BY InitInv, StepInv, PTL DEF Spec, Inv

\* With a first token from the prefill node every kept layer holds the text
\* before its last token, each token once and in order.
THEOREM CacheInStep == Spec => []CacheFollowsText
  BY InitInv, StepInv, PTL DEF Spec, Inv

\* Unless layer 0 was shed, the mask of every forward pass is as long as the
\* cache of every kept layer after it.
THEOREM MaskInStep == Spec => []MaskCoversKept
<1>1. Inv => MaskCoversKept
  BY DEF Inv, Counts, MaskCoversKept, MaskCovers
<1> QED
  BY <1>1, InitInv, StepInv, PTL DEF Spec

\* When the loop is done nothing is left, and what is left and what was
\* generated add up to the request.
LEMMA EnoughTokens == Inv => TokensAsAsked
<1> SUFFICES ASSUME Inv, pc = "done", Large PROVE Generated = asked
  BY DEF TokensAsAsked, Large
<1>1. left >= 0 /\ left <= 0 /\ left = asked - (text - prompt)
  BY DEF Inv, Counts, TypeOK
<1>2. left \in Int /\ asked \in Int /\ text \in Int /\ prompt \in Int
  BY InputsAssumption DEF Inv, TypeOK
<1> QED
  BY <1>1, <1>2 DEF Generated

\* A request for two tokens or more gets exactly as many.
THEOREM TokenCount == Spec => []TokensAsAsked
  BY EnoughTokens, InitInv, StepInv, PTL DEF Spec
-----------------------------------------------------------------------------
(* The conversation. *)

AnyPrompt == Prompts = Nat \ {0}

Speakers == {"system", "initial", "user", "model", "error", "interrupt"}
Tokens == [who: Speakers, turn: Nat, i: Nat]
Lines == [said: Tokens, answer: Seq(Tokens)]

TalkInv ==
  /\ chat \in Chats /\ at \in {"read", "turn", "interrupted", "over"}
  /\ turns \in 0 .. chat.turns
  /\ history \in Seq(Tokens) /\ ids \in Seq(Tokens) /\ screen \in Seq(Lines)
  /\ Len(screen) <= turns
  /\ at = "turn" => Len(screen) < turns /\ ids # <<>> /\ prompt = Len(ids)
  /\ at = "turn" /\ Last(ids).who = "initial" => screen = <<>>

ChatInv == Inv /\ TalkInv

LEMMA TokenType ==
  ASSUME NEW who \in Speakers, NEW t \in Nat, NEW i \in Nat
  PROVE  Token(who, t, i) \in Tokens /\ Token(who, t, i).who = who
BY DEF Token, Tokens

LEMMA SystemType == System \in Seq(Tokens)
<1>1. Token("system", 0, 1) \in Tokens
  BY TokenType DEF Speakers
<1>2. QED
  BY <1>1 DEF System

LEMMA GenerationType ==
  ASSUME turns \in Nat, NEW n \in Nat
  PROVE  Generation(n) \in Seq(Tokens)
<1>1. \A i \in 1 .. n : Token("model", turns, i) \in Tokens
  BY TokenType DEF Speakers
<1>2. Generation(n) \in [1 .. n -> Tokens]
  BY <1>1 DEF Generation
<1>3. QED
  BY <1>2

\* Sequences of the tokens and lines, which are records.
LEMMA JoinType ==
  ASSUME NEW S, NEW a \in Seq(S), NEW b \in Seq(S)
  PROVE  a \o b \in Seq(S)
OBVIOUS

LEMMA PutBehind ==
  ASSUME NEW S, NEW a \in Seq(S), NEW x \in S
  PROVE  /\ a \o <<x>> \in Seq(S) /\ a \o <<x>> # <<>>
         /\ Len(a \o <<x>>) \in Nat \ {0} /\ Last(a \o <<x>>) = x
<1>1. <<x>> \in Seq(S) /\ Len(<<x>>) = 1 /\ <<x>>[1] = x
  OBVIOUS
<1>2. a \o <<x>> \in Seq(S) /\ Len(a \o <<x>>) = Len(a) + 1 /\ Len(a) \in Nat
  BY <1>1
<1>3. (a \o <<x>>)[Len(a) + 1] = x
  BY <1>1, <1>2
<1>4. a \o <<x>> # <<>>
  BY <1>2
<1>5. QED
  BY <1>2, <1>3, <1>4 DEF Last

LEMMA AppendType ==
  ASSUME NEW S, NEW a \in Seq(S), NEW x \in S
  PROVE  Append(a, x) \in Seq(S) /\ Len(Append(a, x)) = Len(a) + 1 /\ Len(a) \in Nat
OBVIOUS

LEMMA LastType ==
  ASSUME NEW S, NEW a \in Seq(S), a # <<>>
  PROVE  Last(a) \in S
BY DEF Last

LEMMA ChatTurns == \A c \in Chats : c.turns \in Nat /\ c.tokens \in Requests /\ c.first \in FirstGiven
BY ChatAssumption DEF ChatType
-----------------------------------------------------------------------------
LEMMA ChatInitInv == AnyPrompt /\ ChatInit => ChatInv
<1> SUFFICES ASSUME AnyPrompt, ChatInit PROVE ChatInv
  OBVIOUS
<1>1. Init
  <2>1. <<1>> = [i \in 1 .. 1 |-> i]
    OBVIOUS
  <2>2. cache = [l \in Layers |-> IF l \in kept THEN [i \in 1 .. prompt |-> i] ELSE <<>>]
    BY <2>1 DEF ChatInit
  <2>3. QED
    BY <2>2, ChatTurns, ChatAssumption DEF ChatInit, Init, AnyPrompt
<1>2. TalkInv
  BY ChatTurns, SystemType DEF ChatInit, TalkInv
<1>3. QED
  BY <1>1, <1>2, InitInv DEF ChatInv

\* A turn begins like a request of the decode node.
LEMMA TurnBegins ==
  ASSUME AnyPrompt, ChatInv, StartTurn
  PROVE  Init' /\ TalkInv'
<1> DEFINE m == Token(IF InitialIsRead THEN "initial" ELSE "user", turns', 1)
<1>1. PICK h \in {System, history} :
      /\ at' = "turn" /\ turns' = turns + 1 /\ turns < chat.turns /\ ids' = h \o <<m>>
      /\ UNCHANGED <<chat, history, screen, asked, first>> /\ prompt' = Len(ids')
      /\ kept' \in KeptSets
  BY DEF StartTurn, FullIds
<1>2. /\ turns \in Nat /\ turns' \in 0 .. chat.turns /\ turns' \in Nat
      /\ screen \in Seq(Lines) /\ Len(screen) <= turns /\ Len(screen) \in Nat
  BY <1>1, ChatTurns DEF ChatInv, TalkInv
<1>3. h \in Seq(Tokens)
  BY SystemType DEF ChatInv, TalkInv
<1>4. m \in Tokens /\ m.who = IF InitialIsRead THEN "initial" ELSE "user"
  BY <1>2, TokenType DEF Speakers
<1> HIDE DEF m
<1>5. ids' \in Seq(Tokens) /\ ids' # <<>> /\ Len(ids') \in Nat \ {0} /\ Last(ids') = m
  BY <1>1, <1>3, <1>4, PutBehind
<1>6. Init'
  BY <1>1, <1>5 DEF StartTurn, Init, AnyPrompt, ChatInv, Inv, TypeOK
<1>7. Last(ids').who = "initial" => screen' = <<>>
  <2>1. ASSUME Last(ids').who = "initial" PROVE turns = 0
    BY <1>4, <1>5, <2>1 DEF InitialIsRead
  <2>2. QED
    BY <1>1, <1>2, <2>1
<1>8. TalkInv'
  BY <1>1, <1>2, <1>5, <1>7 DEF ChatInv, TalkInv
<1>9. QED
  BY <1>6, <1>8

\* However a turn ends, one line is shown and the conversation stays one.
LEMMA TurnEnds ==
  ASSUME ChatInv, at = "turn", at' \in {"read", "interrupted"}, NEW answer \in Seq(Tokens),
         Show(answer), history' \in Seq(Tokens), UNCHANGED <<chat, turns, ids, prompt>>
  PROVE  TalkInv'
<1>1. ids \in Seq(Tokens) /\ ids # <<>> /\ screen \in Seq(Lines) /\ Len(screen) < turns
  BY DEF ChatInv, TalkInv
<1>2. Last(ids) \in Tokens
  BY <1>1, LastType
<1>3. [said |-> Last(ids), answer |-> answer] \in Lines
  BY <1>2 DEF Lines
<1>4. screen' \in Seq(Lines) /\ Len(screen') = Len(screen) + 1 /\ Len(screen) \in Nat
  BY <1>1, <1>3, AppendType DEF Show
<1>5. turns \in Int
  BY ChatTurns DEF ChatInv, TalkInv
<1>6. QED
  BY <1>1, <1>4, <1>5 DEF ChatInv, TalkInv

LEMMA TalkStep ==
  ASSUME ChatInv, \/ Answered \/ HandlerFailed \/ TransferFailed \/ PrefillFailed
                  \/ Interrupt \/ Resume \/ Over \/ Ignored \/ Clear \/ Quit \/ UNCHANGED chatVars
  PROVE  TalkInv' /\ UNCHANGED vars
<1>1. UNCHANGED vars /\ prompt' = prompt
  BY DEF Answered, HandlerFailed, TransferFailed, PrefillFailed, Interrupt, Resume, Over,
         Ignored, Clear, Quit, chatVars, decoding, vars, input
<1>2. /\ ids \in Seq(Tokens) /\ history \in Seq(Tokens) /\ <<>> \in Seq(Tokens)
      /\ turns \in Nat
  BY ChatTurns DEF ChatInv, TalkInv
<1>3. CASE Answered
  <2>1. Generated \in Nat
    <3>1. pc = "done" /\ text \in Nat /\ prompt \in Nat
      BY <1>3, InputsAssumption DEF Answered, ChatInv, Inv, TypeOK
    <3>2. text >= prompt
      BY <3>1 DEF ChatInv, Inv, Counts
    <3>3. QED
      BY <3>1, <3>2 DEF Generated
  <2>2. Generation(Generated) \in Seq(Tokens)
    BY <1>2, <2>1, GenerationType
  <2>3. ids \o Generation(Generated) \in Seq(Tokens)
    BY <1>2, <2>2, JoinType
  <2>4. /\ at = "turn" /\ at' = "read" /\ Show(Generation(Generated))
        /\ history' \in Seq(Tokens) /\ UNCHANGED <<chat, turns, ids, prompt>>
    BY <1>1, <1>3, <2>3 DEF Answered
  <2>5. QED
    BY <1>1, <2>2, <2>4, TurnEnds
<1>4. CASE HandlerFailed
  <2>1. /\ at = "turn" /\ at' = "read" /\ Show(<<>>)
        /\ history' \in Seq(Tokens) /\ UNCHANGED <<chat, turns, ids, prompt>>
    BY <1>1, <1>2, <1>4 DEF HandlerFailed
  <2>2. QED
    BY <1>1, <1>2, <2>1, TurnEnds
<1>5. CASE TransferFailed
  <2>1. Token("error", turns, 1) \in Tokens
    BY <1>2, TokenType DEF Speakers
  <2>2. ErrorText \in Seq(Tokens)
    BY <2>1 DEF ErrorText
  <2>3. ids \o ErrorText \in Seq(Tokens)
    BY <1>2, <2>2, JoinType
  <2>4. /\ at = "turn" /\ at' = "read" /\ Show(ErrorText)
        /\ history' \in Seq(Tokens) /\ UNCHANGED <<chat, turns, ids, prompt>>
    BY <1>1, <1>2, <1>5, <2>3 DEF TransferFailed
  <2>5. QED
    BY <1>1, <2>2, <2>4, TurnEnds
<1>6. CASE Interrupt
  <2>1. Token("interrupt", turns, 1) \in Tokens
    BY <1>2, TokenType DEF Speakers
  <2>2. Nothing \in Seq(Tokens)
    BY <2>1 DEF Nothing
  <2>3. CASE at = "read" /\ UNCHANGED screen
    BY <1>1, <1>6, <2>3 DEF Interrupt, ChatInv, TalkInv
  <2>4. CASE at = "turn" /\ Show(Nothing)
    <3>1. /\ at' = "interrupted"
          /\ history' \in Seq(Tokens) /\ UNCHANGED <<chat, turns, ids, prompt>>
      BY <1>1, <1>2, <1>6 DEF Interrupt
    <3>2. QED
      BY <1>1, <2>2, <2>4, <3>1, TurnEnds
  <2>5. QED
    BY <1>6, <2>3, <2>4 DEF Interrupt
<1>7. CASE PrefillFailed \/ Resume \/ Quit
  BY <1>1, <1>7 DEF PrefillFailed, Resume, Quit, talk, ChatInv, TalkInv
<1>8. CASE Clear
  <2>1. /\ at = "read" /\ at' = at /\ history' = System /\ turns' = 0 /\ screen' = <<>>
        /\ UNCHANGED <<chat, ids>>
    BY <1>8 DEF Clear, MayRead
  <2>2. QED
    BY <1>1, <2>1, SystemType, ChatTurns DEF ChatInv, TalkInv
<1>9. CASE Ignored \/ Over \/ UNCHANGED chatVars
  BY <1>1, <1>9 DEF Ignored, Over, chatVars, talk, ChatInv, TalkInv
<1>10. QED
  BY <1>1, <1>3, <1>4, <1>5, <1>6, <1>7, <1>8, <1>9

LEMMA DecodingStep ==
  ASSUME ChatInv, DecodeTurn
  PROVE  TalkInv' /\ Next
<1>1. /\ UNCHANGED <<chat, at, history, turns, ids, screen>>
      /\ Begin \/ Verify \/ Step \/ Finish
  BY DEF DecodeTurn, talk
<1>2. prompt' = prompt
  BY <1>1 DEF Begin, Verify, Step, Finish, input
<1>3. QED
  BY <1>1, <1>2 DEF Next, ChatInv, TalkInv

LEMMA ChatStep == AnyPrompt /\ ChatInv /\ [ChatNext]_chatVars => TalkInv' /\ (Init' \/ [Next]_vars)
<1> SUFFICES ASSUME AnyPrompt, ChatInv, [ChatNext]_chatVars
             PROVE  TalkInv' /\ (Init' \/ [Next]_vars)
  OBVIOUS
<1>1. CASE StartTurn
  BY <1>1, TurnBegins
<1>2. CASE DecodeTurn
  BY <1>2, DecodingStep
<1>3. CASE ~StartTurn /\ ~DecodeTurn
  BY <1>3, TalkStep DEF ChatNext
<1>4. QED
  BY <1>1, <1>2, <1>3

LEMMA ChatAlways == AnyPrompt => (ChatSpec => []ChatInv)
<1> SUFFICES ASSUME AnyPrompt PROVE ChatSpec => []ChatInv
  OBVIOUS
<1>1. ChatInit => ChatInv
  BY ChatInitInv
<1>2. ChatInv /\ [ChatNext]_chatVars => TalkInv' /\ (Init' \/ [Next]_vars)
  BY ChatStep
<1>3. Init => Inv
  BY InitInv
<1>4. Inv /\ [Next]_vars => Inv'
  BY StepInv
<1>5. ChatInv <=> Inv /\ TalkInv
  BY DEF ChatInv
<1>6. QED
  BY <1>1, <1>2, <1>3, <1>4, <1>5, PTL DEF ChatSpec

\* run_interactive keeps its counters and its history well formed, and the
\* request on the decode node is the one for the prompt of the turn.
THEOREM ChatTypes == AnyPrompt => (ChatSpec => []ChatTypeOK)
<1> SUFFICES ASSUME AnyPrompt PROVE ChatSpec => []ChatTypeOK
  OBVIOUS
<1>1. ChatInv => ChatTypeOK
  BY DEF ChatInv, Inv, TalkInv, ChatTypeOK
<1>2. ChatSpec => []ChatInv
  BY ChatAlways
<1>3. QED
  BY <1>1, <1>2, PTL

\* In every turn of a conversation the cache of the decode node follows the
\* text, however long the prompt has grown.
THEOREM ChatCache == AnyPrompt => (ChatSpec => []CacheFollowsText)
<1> SUFFICES ASSUME AnyPrompt PROVE ChatSpec => []CacheFollowsText
  OBVIOUS
<1>1. ChatInv => CacheFollowsText
  BY DEF ChatInv, Inv
<1>2. ChatSpec => []ChatInv
  BY ChatAlways
<1>3. QED
  BY <1>1, <1>2, PTL

\* ... the mask covers it unless layer 0 was shed ...
THEOREM ChatMask == AnyPrompt => (ChatSpec => []MaskCoversKept)
<1> SUFFICES ASSUME AnyPrompt PROVE ChatSpec => []MaskCoversKept
  OBVIOUS
<1>1. ChatInv => MaskCoversKept
  BY DEF ChatInv, Inv, Counts, MaskCoversKept, MaskCovers
<1>2. ChatSpec => []ChatInv
  BY ChatAlways
<1>3. QED
  BY <1>1, <1>2, PTL

\* ... and the user gets as many tokens as asked for.
THEOREM ChatTokens == AnyPrompt => (ChatSpec => []TokensAsAsked)
<1> SUFFICES ASSUME AnyPrompt PROVE ChatSpec => []TokensAsAsked
  OBVIOUS
<1>1. ChatInv => TokensAsAsked
  BY EnoughTokens DEF ChatInv
<1>2. ChatSpec => []ChatInv
  BY ChatAlways
<1>3. QED
  BY <1>1, <1>2, PTL

\* run_interactive sends its initial prompt once: a first turn that fails or
\* is interrupted does not send it again, only /clear does.
THEOREM InitialOnce == AnyPrompt => (ChatSpec => []InitialPromptOnce)
<1> SUFFICES ASSUME AnyPrompt PROVE ChatSpec => []InitialPromptOnce
  OBVIOUS
<1>1. ChatInv => InitialPromptOnce
  BY DEF ChatInv, TalkInv, InitialPromptOnce
<1>2. ChatSpec => []ChatInv
  BY ChatAlways
<1>3. QED
  BY <1>1, <1>2, PTL
-----------------------------------------------------------------------------
(* What the model is prompted with. *)

\* What one line of the screen has put into the conversation.
Kind(x) == IF x.answer = <<>> THEN "model" ELSE x.answer[1].who

Told(x) == CASE Kind(x) = "interrupt" -> <<>>
             [] Kind(x) = "error" /\ chat.tokenizer = "ascii" -> <<x.said>>
             [] OTHER -> <<x.said>> \o x.answer

ToldAll(lines) == [i \in DOMAIN lines |-> Told(lines[i])]

\* The conversation that is kept is the one on the screen.
SaidInv ==
  chat.tokenizer # "template" =>
    history = Conversed /\ (at = "turn" => ids = history \o <<Last(ids)>>)

\* What is said is said in this order, however it is grouped.
LEMMA TalkAssociative ==
  ASSUME NEW a \in Seq(Tokens), NEW b \in Seq(Tokens), NEW c \in Seq(Tokens)
  PROVE  a \o (b \o c) = (a \o b) \o c
BY ConcatAssociative

LEMMA ConversedIs == Conversed = System \o FlattenSeq(ToldAll(screen))
BY DEF Conversed, ToldAll, Told, Kind

LEMMA ToldType ==
  ASSUME NEW x \in Lines
  PROVE  Told(x) \in Seq(Tokens)
<1>1. x.said \in Tokens /\ x.answer \in Seq(Tokens)
  BY DEF Lines
<1>2. <<x.said>> \in Seq(Tokens) /\ <<>> \in Seq(Tokens)
  BY <1>1
<1>3. <<x.said>> \o x.answer \in Seq(Tokens)
  BY <1>1, <1>2, JoinType
<1>4. QED
  BY <1>2, <1>3 DEF Told

\* A line more on the screen is its part more of the conversation.
LEMMA ConversedGrows ==
  ASSUME screen \in Seq(Lines), NEW x \in Lines, screen' = Append(screen, x), chat' = chat
  PROVE  Conversed' = Conversed \o Told(x)
<1>1. ToldAll(screen) \in Seq(Seq(Tokens))
  <2>1. \A i \in 1 .. Len(screen) : Told(screen[i]) \in Seq(Tokens)
    BY ToldType
  <2>2. ToldAll(screen) \in [1 .. Len(screen) -> Seq(Tokens)] /\ Len(screen) \in Nat
    BY <2>1 DEF ToldAll
  <2>3. QED
    BY <2>2
<1>2. Told(x) \in Seq(Tokens)
  BY ToldType
<1>3. ToldAll(screen') = Append(ToldAll(screen), Told(x))
  <2>1. /\ DOMAIN screen = 1 .. Len(screen) /\ Len(screen) \in Nat
        /\ DOMAIN screen' = 1 .. Len(screen) + 1 /\ screen'[Len(screen) + 1] = x
        /\ \A i \in 1 .. Len(screen) : screen'[i] = screen[i]
    BY AppendProperties
  <2>2. /\ DOMAIN ToldAll(screen) = 1 .. Len(screen)
        /\ Len(ToldAll(screen)) = Len(screen)
    BY <2>1 DEF ToldAll
  <2> DEFINE longer == Append(ToldAll(screen), Told(x))
  <2>3. /\ DOMAIN longer = 1 .. Len(screen) + 1 /\ longer[Len(screen) + 1] = Told(x)
        /\ \A i \in 1 .. Len(screen) : longer[i] = ToldAll(screen)[i]
        /\ longer \in Seq(Seq(Tokens))
    BY <1>1, <1>2, <2>2, AppendProperties
  <2>4. \A i \in 1 .. Len(screen) + 1 : longer[i] = Told(screen'[i])
    <3> TAKE i \in 1 .. Len(screen) + 1
    <3>1. CASE i \in 1 .. Len(screen)
      BY <2>1, <2>3, <3>1 DEF ToldAll
    <3>2. CASE i = Len(screen) + 1
      BY <2>1, <2>3, <3>2
    <3>3. i \in 1 .. Len(screen) \/ i = Len(screen) + 1
      <4>1. Len(screen) \in Nat
        BY <2>1
      <4>2. QED
        BY <4>1
    <3>4. QED
      BY <3>1, <3>2, <3>3
  <2>5. longer = [i \in 1 .. Len(screen) + 1 |-> longer[i]]
    <3> HIDE DEF longer
    <3>1. longer \in [1 .. Len(longer) -> Seq(Tokens)]
      BY <2>3, LenProperties
    <3>2. QED
      BY <2>3, <3>1
  <2> HIDE DEF longer
  <2>6. longer = ToldAll(screen')
    BY <2>1, <2>4, <2>5 DEF ToldAll
  <2>7. QED
    BY <2>6 DEF longer
<1>4. /\ FlattenSeq(ToldAll(screen)) \in Seq(Tokens)
      /\ FlattenSeq(Append(ToldAll(screen), Told(x))) = FlattenSeq(ToldAll(screen)) \o Told(x)
  BY <1>1, <1>2, FlattenSeqAppend
<1>5. Conversed' = System \o FlattenSeq(ToldAll(screen'))
  <2>1. Conversed' = System' \o FlattenSeq([i \in DOMAIN screen' |-> Told(screen'[i])])
    BY DEF Conversed, Told, Kind
  <2>2. System' = System
    BY DEF System, Token
  <2>3. QED
    BY <2>1, <2>2 DEF ToldAll
<1>6. System \o (FlattenSeq(ToldAll(screen)) \o Told(x))
        = (System \o FlattenSeq(ToldAll(screen))) \o Told(x)
  <2>1. System \in Seq(Tokens) /\ FlattenSeq(ToldAll(screen)) \in Seq(Tokens) /\ Told(x) \in Seq(Tokens)
    BY <1>2, <1>4, SystemType
  <2> QED
    BY <2>1, TalkAssociative
<1>7. QED
  BY <1>3, <1>4, <1>5, <1>6, ConversedIs

\* A turn that ends leaves in the history what it leaves on the screen.
LEMMA SaidEnds ==
  ASSUME TalkInv, SaidInv, at = "turn", at' # "turn", UNCHANGED <<chat, ids>>,
         NEW answer \in Seq(Tokens), Show(answer),
         chat.tokenizer # "template" =>
           history' = history \o Told([said |-> Last(ids), answer |-> answer])
  PROVE  SaidInv'
<1> DEFINE line == [said |-> Last(ids), answer |-> answer]
<1>1. ids \in Seq(Tokens) /\ ids # <<>> /\ screen \in Seq(Lines)
  BY DEF TalkInv
<1>2. line \in Lines
  BY <1>1, LastType DEF Lines
<1>3. screen' = Append(screen, line) /\ chat' = chat
  BY DEF Show
<1>4. chat.tokenizer # "template" => history' = history \o Told(line)
  OBVIOUS
<1> HIDE DEF line
<1>5. Conversed' = Conversed \o Told(line)
  BY <1>1, <1>2, <1>3, ConversedGrows
<1>6. QED
  BY <1>3, <1>4, <1>5 DEF SaidInv

\* The four ways a turn ends, on the way back to the reader.
LEMMA SaidTurn ==
  ASSUME ChatInv, SaidInv, \/ Answered \/ HandlerFailed \/ TransferFailed
                           \/ Interrupt /\ at = "turn"
  PROVE  SaidInv'
<1>1. /\ at = "turn" /\ at' # "turn" /\ UNCHANGED <<chat, ids>> /\ turns \in Nat
      /\ TalkInv /\ ids \in Seq(Tokens) /\ ids # <<>> /\ history \in Seq(Tokens)
      /\ chat.tokenizer # "template" => ids = history \o <<Last(ids)>>
  BY ChatTurns DEF Answered, HandlerFailed, TransferFailed, Interrupt, ChatInv, TalkInv, SaidInv
<1> DEFINE m == Last(ids)
<1>2. m \in Tokens
  BY <1>1, LastType
<1> HIDE DEF m
<1>3. <<m>> \in Seq(Tokens) /\ <<>> \in Seq(Tokens)
  BY <1>2
<1>4. ASSUME NEW a \in Seq(Tokens) PROVE (history \o <<m>>) \o a = history \o (<<m>> \o a)
  BY <1>1, <1>3, <1>4, TalkAssociative
<1>5. CASE Answered
  <2>1. Generated \in Nat
    <3>1. pc = "done" /\ text \in Nat /\ prompt \in Nat
      BY <1>5, InputsAssumption DEF Answered, ChatInv, Inv, TypeOK
    <3>2. text >= prompt
      BY <3>1 DEF ChatInv, Inv, Counts
    <3>3. QED
      BY <3>1, <3>2 DEF Generated
  <2> DEFINE a == Generation(Generated)
  <2>2. a \in Seq(Tokens)
    BY <1>1, <2>1, GenerationType
  <2>3. Kind([said |-> m, answer |-> a]) = "model"
    <3>1. CASE a = <<>>
      BY <3>1 DEF Kind
    <3>2. CASE a # <<>>
      <4>1. 1 \in 1 .. Generated
        BY <2>1, <3>2 DEF Generation
      <4>2. a[1] = Token("model", turns, 1)
        BY <4>1 DEF Generation
      <4>3. a[1].who = "model"
        BY <4>2 DEF Token
      <4> HIDE DEF a
      <4>4. QED
        BY <3>2, <4>3 DEF Kind
    <3>3. QED
      BY <3>1, <3>2
  <2>4. Show(a) /\ history' = ids \o a
    BY <1>5 DEF Answered
  <2> HIDE DEF a
  <2>5. Told([said |-> m, answer |-> a]) = <<m>> \o a
    BY <2>3 DEF Told
  <2>6. chat.tokenizer # "template" => history' = history \o Told([said |-> m, answer |-> a])
    BY <1>1, <1>4, <2>2, <2>4, <2>5 DEF m
  <2>7. QED
    BY <1>1, <2>2, <2>4, <2>6, SaidEnds DEF ChatInv, m
<1>6. CASE HandlerFailed
  <2> DEFINE a == <<>>
  <2>1. Show(a) /\ history' = ids
    BY <1>6 DEF HandlerFailed
  <2>2. Told([said |-> m, answer |-> a]) = <<m>> \o a /\ <<m>> \o a = <<m>>
    BY <1>3 DEF Told, Kind
  <2> HIDE DEF a
  <2>3. chat.tokenizer # "template" => history' = history \o Told([said |-> m, answer |-> a])
    BY <1>1, <2>1, <2>2 DEF m
  <2>4. a \in Seq(Tokens)
    BY <1>3 DEF a
  <2>5. QED
    BY <1>1, <2>1, <2>3, <2>4, SaidEnds DEF ChatInv, m
<1>7. CASE TransferFailed
  <2> DEFINE a == ErrorText
             line == [said |-> m, answer |-> a]
  <2>1. Token("error", turns, 1) \in Tokens /\ Token("error", turns, 1).who = "error"
    BY <1>1, TokenType DEF Speakers
  <2>2. a \in Seq(Tokens) /\ a # <<>> /\ a[1].who = "error"
    BY <2>1 DEF ErrorText
  <2>3. Show(a) /\ history' = IF chat.tokenizer = "ascii" THEN ids ELSE ids \o a
    BY <1>7 DEF TransferFailed
  <2> HIDE DEF a
  <2>4. line.said = m /\ line.answer = a
    OBVIOUS
  <2> HIDE DEF line
  <2>5. Kind(line) = "error"
    BY <2>2, <2>4 DEF Kind
  <2>6. Told(line) = IF chat.tokenizer = "ascii" THEN <<m>> ELSE <<m>> \o a
    BY <2>4, <2>5 DEF Told
  <2>7. chat.tokenizer # "template" => history' = history \o Told(line)
    BY <1>1, <1>4, <2>2, <2>3, <2>6 DEF m
  <2>8. QED
    BY <1>1, <2>2, <2>3, <2>7, SaidEnds DEF ChatInv, m, line
<1>8. CASE Interrupt /\ at = "turn"
  <2> DEFINE a == Nothing
             line == [said |-> m, answer |-> a]
  <2>1. Token("interrupt", turns, 1) \in Tokens /\ Token("interrupt", turns, 1).who = "interrupt"
    BY <1>1, TokenType DEF Speakers
  <2>2. a \in Seq(Tokens) /\ a # <<>> /\ a[1].who = "interrupt"
    BY <2>1 DEF Nothing
  <2>3. Show(a) /\ history' = history
    BY <1>8 DEF Interrupt
  <2> HIDE DEF a
  <2>4. line.said = m /\ line.answer = a
    OBVIOUS
  <2> HIDE DEF line
  <2>5. Told(line) = <<>>
    BY <2>2, <2>4 DEF Told, Kind
  <2>6. history' = history \o Told(line)
    BY <1>1, <2>3, <2>5, ConcatEmptySeq
  <2>7. QED
    BY <1>1, <2>2, <2>3, <2>6, SaidEnds DEF ChatInv, m, line
<1>9. QED
  BY <1>5, <1>6, <1>7, <1>8

LEMMA SaidStep == ChatInv /\ SaidInv /\ [ChatNext]_chatVars => SaidInv'
<1> SUFFICES ASSUME ChatInv, SaidInv, [ChatNext]_chatVars PROVE SaidInv'
  OBVIOUS
<1>1. /\ history \in Seq(Tokens) /\ turns \in Nat
  BY ChatTurns DEF ChatInv, TalkInv
<1>2. CASE StartTurn
  <2> DEFINE m == Token(IF InitialIsRead THEN "initial" ELSE "user", turns', 1)
  <2>1. /\ turns' = turns + 1 /\ chat' = chat /\ history' = history /\ screen' = screen
        /\ chat.tokenizer # "template" => ids' = history \o <<m>>
    BY <1>2 DEF StartTurn, FullIds
  <2>2. m \in Tokens
    BY <1>1, <2>1, TokenType DEF Speakers
  <2> HIDE DEF m
  <2>3. Last(history \o <<m>>) = m
    BY <1>1, <2>2, PutBehind
  <2>4. Conversed' = Conversed
    BY <2>1 DEF Conversed, System, Token
  <2>5. QED
    BY <2>1, <2>3, <2>4 DEF SaidInv
<1>3. CASE Clear
  <2>1. chat' = chat /\ at = "read" /\ at' = at /\ history' = System /\ screen' = <<>>
    BY <1>3 DEF Clear, MayRead
  <2>2. [i \in DOMAIN screen' |-> Told(screen'[i])] = <<>>
    BY <2>1
  <2>3. Conversed' = System' \o FlattenSeq([i \in DOMAIN screen' |-> Told(screen'[i])])
    BY <2>1 DEF Conversed, Told, Kind
  <2>4. System' = System /\ System \in Seq(Tokens)
    BY <2>1, SystemType DEF System, Token
  <2>5. Conversed' = System
    BY <2>2, <2>3, <2>4, FlattenSeqEmpty, ConcatEmptySeq
  <2>6. QED
    BY <2>1, <2>5 DEF SaidInv
<1>4. CASE Answered \/ HandlerFailed \/ TransferFailed \/ (Interrupt /\ at = "turn")
  BY <1>4, SaidTurn
<1>5. CASE \/ Ignored \/ Quit \/ DecodeTurn \/ PrefillFailed \/ (Interrupt /\ at # "turn")
           \/ Resume \/ Over \/ UNCHANGED chatVars
  <2>1. chat' = chat /\ history' = history /\ screen' = screen /\ ids' = ids
        /\ (at' = "turn" => at = "turn")
    BY <1>5 DEF Ignored, Quit, DecodeTurn, PrefillFailed, Interrupt, Resume, Over, chatVars, talk
  <2>2. Conversed' = Conversed
    BY <2>1 DEF Conversed, System, Token
  <2>3. QED
    BY <2>1, <2>2 DEF SaidInv
<1>6. QED
  BY <1>2, <1>3, <1>4, <1>5 DEF ChatNext

LEMMA SaidInit == ChatInit => SaidInv
<1> SUFFICES ASSUME ChatInit PROVE SaidInv
  OBVIOUS
<1>1. history = System /\ screen = <<>> /\ at = "read"
  BY DEF ChatInit
<1>2. ToldAll(screen) = <<>>
  BY <1>1 DEF ToldAll
<1>3. Conversed = System
  BY <1>2, ConversedIs, SystemType, FlattenSeqEmpty, ConcatEmptySeq
<1>4. QED
  BY <1>1, <1>3 DEF SaidInv

\* Without a chat template the model is prompted with what is on the screen
\* and the new message, in a conversation of any length and however its turns
\* ended.
THEOREM PromptFollowsScreen == AnyPrompt => (ChatSpec => []PromptIsConversation)
<1> SUFFICES ASSUME AnyPrompt PROVE ChatSpec => []PromptIsConversation
  OBVIOUS
<1>1. SaidInv => PromptIsConversation
  BY DEF SaidInv, PromptIsConversation
<1>2. ChatSpec => []ChatInv
  BY ChatAlways
<1>3. ChatInit => SaidInv
  BY SaidInit
<1>4. ChatInv /\ SaidInv /\ [ChatNext]_chatVars => SaidInv'
  BY SaidStep
<1>5. QED
  BY <1>1, <1>2, <1>3, <1>4, PTL DEF ChatSpec
=============================================================================
