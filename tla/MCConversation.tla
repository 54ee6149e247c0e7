--------------------------- MODULE MCConversation ---------------------------
(* Conversation: single turns for every request, and conversations of three *)
(* turns, with every tokenizer and initial prompt.                          *)
EXTENDS Conversation

MCRequests == -1 .. 4
MCKeptSets == (SUBSET Layers) \ {{}}

MCChats ==
  [tokenizer: {"plain"}, system: BOOLEAN, initial: {"message"}, tokens: MCRequests,
   first: FirstGiven, turns: {1}]
  \cup [tokenizer: {"template", "plain", "ascii"}, system: {TRUE},
        initial: {"none", "message", "clear", "quit", "unknown"}, tokens: {0, 2}, first: {TRUE}, turns: {3}]
=============================================================================
