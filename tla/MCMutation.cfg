CONSTANTS
  Nil = Nil
  ApiVersions = {}
  Identifiers = {}
  Names <- MCNames
  LabelKeys <- MCLabelKeys
  LabelValues <- MCLabelValues
  Values <- MCValues
  MaxUint64 = 0
  Bodies0 <- MCBodies
  Lists <- MCLists
SPECIFICATION Spec
INVARIANTS ConfinedToList ValidateExact
CHECK_DEADLOCK FALSE
