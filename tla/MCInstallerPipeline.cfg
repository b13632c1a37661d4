SPECIFICATION FairSpec
CONSTANTS
  Builds = {b1}
  Requests = {r1, r2}
  Workers = {w1, w2}
  None = None
  MaxQueued = 3
  MaxCrashes = 1
  MaxFaults = 1
INVARIANTS TypeOK SucceededInstallerIsWhole InstallerNeedsBuild NoOrphanedInstaller
CHECK_DEADLOCK FALSE
PROPERTY InstallerSettles
