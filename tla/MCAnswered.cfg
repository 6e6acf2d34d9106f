CONSTANTS
  Nil = Nil
  ApiVersions <- MCApiVersions
  Identifiers <- MCIdentifiers
  Names <- MCNames
  LabelKeys <- MCLabelKeys
  LabelValues <- MCLabelValues
  Values <- MCValues
  MaxUint64 = 3
  ServedConfig <- MCConfig
  Token <- MCToken
  Slots = {r1, r2}
  Ids <- MCIds
  Requests <- MCFewRequests
  InitialObjects <- MCInitialObjects
  Pool <- MCPool
  MaxIndex = 2
SPECIFICATION Spec
PROPERTY EveryRequestAnswered
