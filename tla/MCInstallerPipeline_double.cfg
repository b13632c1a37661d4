SPECIFICATION Spec
CONSTANTS
  Builds = {b1}
  Requests = {r1, r2}
  Workers = {w1, w2, w3}
  None = None
  MaxQueued = 2
  MaxCrashes = 0
  MaxFaults = 0
INVARIANT OneInstallerAtATime
CHECK_DEADLOCK FALSE
