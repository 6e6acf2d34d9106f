CONSTANTS
  Slots = {s1, s2}
  MaxLookups = 2
  MaxRequests = 2
  MaxProbes = 2
  StartupTimeout = 1
  ProbeTimeout = 1
  LookupTimeout = 1
  ShutdownTimeout = 2
SPECIFICATION Spec
INVARIANTS TypeOK DrainedBeforeFlush
PROPERTIES DrainInTime SignalEndsProcess StartupEnds
CHECK_DEADLOCK FALSE
