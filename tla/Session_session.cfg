SPECIFICATION Spec
CONSTANTS
  Providers = {"claude-code", "codex"}
  Contexts <- MCContexts
  NoDecision = NoDecision
  MaxLlmRetries = 2
  DefaultWait = 1
  Resets = {1, 3}
  MaxTime = 3
INVARIANTS
  CompletedWasReported
  SleepsOnlyForLimit
PROPERTIES
  
  ChoiceSpec
CHECK_DEADLOCK FALSE
