SPECIFICATION Spec
CONSTANTS
  Commands = {c1, c2}
  Nobody = Nobody
  MaxCommandFaults = 1
  Codes = {e1, e2}
  Tokens = {t1, t2, t3}
  Calls = {k1, k2}
  Nothing = Nothing
  MaxEnrollFaults = 0
  Measurements = {m1, m2}
  SecureStates = {s1}
  Versions = {v1}
  Nonces = {n1, n2, n3, n4, n5}
  Requests = {k1, k2}
  Unset = Unset
  MaxAttestFaults = 1
  Clients = {a, b}
  Callers = {g1, g2}
  Limit = 1
  Window = 2
  MapLimit = 1
  MaxWait = 1
  MaxTime = 2
  MaxVersion = 2
  MaxPowerLoss = 0
PROPERTY ResetRegistersAgain
