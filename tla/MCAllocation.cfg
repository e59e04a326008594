SPECIFICATION Spec
CONSTANTS
  Modules = {1, 2, 3}
  Slack = slack
  Precision = 3
  Demands = {0, 1, 2, 4}
  Budgets = {0, 2, 3, 5, 8}
  Definitions <- MCDefinitions
INVARIANTS
  TypeOK
  Conservation
  GrantBounds
  LendOnlyUnused
  TargetsBeforeLeases
  PythonAgrees
  NoTokenStranded
  BorrowPriority
  WeightedFairness
PROPERTIES
  Termination
  ImplementsPool
