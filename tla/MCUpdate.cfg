CONSTANTS
  Nil = Nil
  ApiVersions <- MCApiVersions
  Identifiers <- MCIdentifiers
  Names <- MCNames
  LabelKeys <- MCLabelKeys
  LabelValues <- MCLabelValues
  Values <- MCValues
  MaxUint64 = 3
  ServedConfig <- MCConfig
  Token <- MCToken
  Slots = {r1, r2}
  Ids <- MCIds
  Requests <- MCRequests
  InitialObjects <- MCInitialObjects
  Pool <- MCPool
  MaxIndex = 3
SYMMETRY Symmetry
SPECIFICATION SafetySpec
INVARIANTS TypeOK SnapshotsSound
PROPERTY MediatesEveryOperation
