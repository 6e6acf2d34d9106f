CONSTANTS
  Schemas <- MCSchemas
  Root = "root"
  Private = "private"
  MaxStack = 4
  MaxDepth = 2
SPECIFICATION GeneratorSpec
INVARIANTS ComparesExactly CallsResolved
PROPERTY GeneratorEnds
CHECK_DEADLOCK FALSE
