CONSTANTS
  ApiVersions <- MCApiVersions
  Identifiers <- MCIdentifiers
  Methods <- MCMethods
  Segments <- MCSegments
  Queries <- MCQueries
SPECIFICATION ResolverSpec
INVARIANTS ResolvedUniquely
PROPERTY LookupOnTarget
CHECK_DEADLOCK FALSE
