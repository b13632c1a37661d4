SPECIFICATION Spec
CONSTANTS
  Builds = {b1}
  Releases = {x1, x2}
  Rollouts = {i1, i2}
  None = None
  MaxCrashes = 0
  MaxFaults = 0
INVARIANT QuietFleetAgrees
CHECK_DEADLOCK FALSE
