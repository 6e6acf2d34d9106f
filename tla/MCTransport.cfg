CONSTANTS
  Nil = Nil
  ApiVersions = {}
  Identifiers <- MCIdentifiers
  Names = {}
  LabelKeys <- MCLabelKeys
  LabelValues <- MCLabelValues
  Values <- MCValues
  MaxUint64 = 3
  ServedConfig <- MCConfig
  Token <- MCToken
  Slots = {s1, s2, s3}
  Envelopes <- MCEnvelopes
  MaxPeers = 2
  Tracing = TRUE
  MaxPosts = 2
  MaxLookups = 2
SYMMETRY Symmetry
SPECIFICATION Spec
INVARIANTS NeverAnonymous AuditedFirst CountersReconcile CallbackTraced
CHECK_DEADLOCK FALSE
