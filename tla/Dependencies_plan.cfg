SPECIFICATION MCSpec
CONSTANTS
  Ids = {a, b, c, config}
  ConfigSlug = config
  Commands = {t}
  Declarations <- MCDeclarations
  Proposals <- MCProposals
  Procs = {p, q}
  MaxGoals = 2
  MaxLlmRetries = 1
  MaxEdits = 4
SYMMETRY MCSymmetry
INVARIANTS
  WrittenWholeOrNothing
  PlanCanBeCarriedOut
  CompletedInOrder
  WaitsForSomebody
CHECK_DEADLOCK FALSE
