SPECIFICATION FairSpec
CONSTANTS
  b1 = b1
  b2 = b2
  b3 = b3
  k1 = k1
  k2 = k2
  Builds = {b1, b3}
  KeyOf <- MCKeyOf
  Workers = {w1, w2}
  None = None
  MaxCrashes = 1
  MaxFaults = 1
PROPERTIES BuildSettles RestartSettles
CHECK_DEADLOCK FALSE
