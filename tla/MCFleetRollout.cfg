SPECIFICATION Spec
CONSTANTS
  Builds = {b1}
  Releases = {x1, x2}
  Rollouts = {i1, i2}
  None = None
  MaxCrashes = 1
  MaxFaults = 1
SYMMETRY Symmetry
INVARIANTS TypeOK ServedIsReady GapIsTransient DesiredWasActivated SerialRolloutsAgree
CHECK_DEADLOCK FALSE
