CONSTANTS
  Nil = Nil
  ApiVersions = {}
  Identifiers = {}
  Names = {}
  LabelKeys <- MCLabelKeys
  LabelValues <- MCLabelValues
  Values = {}
  MaxUint64 = 0
  Configs <- MCConfigs
SPECIFICATION Spec
INVARIANTS TypeOK EveryClientReachable EveryPermissionUsable ExportersUsable
CHECK_DEADLOCK FALSE
