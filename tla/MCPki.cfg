CONSTANTS
  Nil = Nil
  Runs = {"r1", "r2", "r3"}
  Dirs = {"pki", "new", "used"}
  Requested <- MCRequested
  OldKeys = {"old", "older"}
  InitialFiles <- MCInitialFiles
  ValidSANs = {"host"}
  DefaultDays = 1
  DefaultCADays = 2
  MaxDays = 4
  MaxFaults = 1
SPECIFICATION Spec
INVARIANTS TypeOK PublishedWhole FailureLeavesNothing BundleVerifies SomeRunSucceeds
PROPERTY OthersPreserved
CHECK_DEADLOCK FALSE
