SPECIFICATION Spec
CONSTANTS
  NumLayers = 3
  MaxNewTokens = 2
  MaxCancels = 1
  PrefillEnvironments <- MCPrefillEnvironments
  DecodeEnvironments <- MCDecodeEnvironments
INVARIANTS
  TypeOK
  StagesAreTheModel
  OwnPromptCached
  ContextInStep
  NoCacheLeft
CHECK_DEADLOCK FALSE
