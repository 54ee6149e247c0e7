SPECIFICATION ChatSpec
CONSTANTS
  Layers = {0, 1, 2}
  Prompts = {1, 2, 3, 4, 5, 6, 7, 8, 9, 10}
  Requests <- MCRequests
  FirstGiven = {TRUE, FALSE}
  KeptSets <- MCKeptSets
  Chats <- MCChats
INVARIANTS
  ChatTypeOK
  CacheFollowsText
  MaskCoversKept
  TokensAsAsked
  PromptIsConversation
  InitialPromptOnce
