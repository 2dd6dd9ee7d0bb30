SPECIFICATION FairSpec
CONSTANTS
  MaxTokens = 5
  MaxOthers = 3
  Pages <- MCPages
  Sub <- MCSub
  Globals <- MCGlobals
  COND_STACK_DEPTH = 10
  VAR_MAX_SCOPES = 10
INVARIANTS
  ScopesBalanced
  RendersMeaning
PROPERTIES
  RenderingEnds
