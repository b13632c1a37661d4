CONSTANTS
  People = {u1, u2}
  Invites = {i1, i2}
  Passkeys = {k1, k2, k3}
  Browsers = {b}
  Tabs = {t1, t2}
  Nil = Nil
  Fleets = {u1, u2}
  Profiles = {i1, i2}
  Builds = {k1, k2}
  Handlers = {h1, h2}
  MaxRequests = 0
  InitialRows = 3
  None = None
  Users = {h1, h2}
  Nobody = Nobody
  MaxGenerations = 1
  Pages = {v1}
  BatchLimit = 1
  MaxLines = 1
SPECIFICATION Spec
INVARIANT KeepsOnePasskey
SYMMETRY Symmetry
