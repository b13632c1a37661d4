SPECIFICATION Spec
CONSTANTS
  Builds = {b1}
  Releases = {x1, x2}
  Rollouts = {i1}
  None = None
  MaxCrashes = 0
  MaxFaults = 0
INVARIANT ManifestNamesFiles
CHECK_DEADLOCK FALSE
