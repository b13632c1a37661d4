SPECIFICATION Spec
CONSTANTS
  b1 = b1
  b2 = b2
  b3 = b3
  k1 = k1
  k2 = k2
  Builds = {b1, b2, b3}
  KeyOf <- MCKeyOf
  Workers = {w1, w2, w3}
  None = None
  MaxCrashes = 1
  MaxFaults = 1
SYMMETRY Symmetry
INVARIANTS TypeOK SoleExecutor SucceededIsPublished NoOrphanedBuild
PROPERTIES TerminalIsFinal ImplementsLifecycle
CHECK_DEADLOCK FALSE
